---------------------------- MODULE Spec2Model ----------------------------
(***************************************************************************)
(* Model of tripplanner/executor.py: OrchestratorExecutor.execute, the     *)
(* dependency-aware scheduling loop, the per-task retry loop and the       *)
(* per-attempt evaluation of a handler's return value; and of              *)
(* tripplanner/planner.py: OrchestratorPlanner.generate, whose plan the    *)
(* executor runs; and of tripplanner/cache.py: MemoryCache and             *)
(* RateLimiter, the resources the handlers share; of GeoTool.run and        *)
(* POITool.run (geo_tool.py, poi_tool.py), which put the cache and the     *)
(* rate limiter in front of an HTTP client; and of                         *)
(* _invoke_with_transient_retry in pipeline_runner.py.                     *)
(*                                                                         *)
(* Strings that the code compares or sorts (task_id, parallel_group, the   *)
(* bucket key) are sequences of character codes, compared the way Python   *)
(* compares str: code point by code point, a proper prefix first.          *)
(* Confidence values are in tenths (0.5 is 5).                             *)
(* The clock of the cache counts whole ticks: the cache only adds and      *)
(* compares times.  The rate limiter multiplies and divides, so its        *)
(* numbers are exact fractions <<numerator, denominator>> in lowest terms. *)
(***************************************************************************)
EXTENDS Integers, Sequences, FiniteSets, TLC

VARIABLES
    tripspec,             \* TripSpec.legs given to the planner; <<>> when the plan is given directly
    plan,                 \* Plan.tasks: sequence of PlanTask
    handlers,             \* self._handlers: the agent kinds with a handler
    critical_arg,         \* the critical_agents constructor argument: <<>> is None, <<S>> a set
    critical_agents,      \* self._critical_agents
    max_retries,          \* self._max_retries
    confidence_threshold, \* self._confidence_threshold
    pc,                   \* "plan" before generate; then the position in execute: "loop", "run", "returned", "raised"
    pending,              \* keys of the pending dict, in insertion order
    completed,            \* completed: set of task_id
    results,              \* results: task_id -> parsed result
    records,              \* records: sequence of TaskExecutionRecord
    stages,               \* stages: sequence of task_id lists
    grouped,              \* grouped of the current pass
    gi,                   \* index of the current group in grouped
    ti,                   \* index of the current task in its group
    stage_task_ids,       \* stage_task_ids of the current group
    attempt,              \* loop variable of _execute_task_with_retry
    last_issues,          \* last_issues of _execute_task_with_retry
    calls,                \* every handler invocation, in order: the task and what the handler did
    outcome,              \* <<>> until execute returns, then <<ExecutionOutcome>>
    max_size,             \* MemoryCache.max_size
    items,                \* MemoryCache._items in OrderedDict order, least recently used first
    cache_clock,          \* what MemoryCache._clock() returns
    cache_op,             \* the last call on the cache: its name, arguments and result, and the entries it found
    limiter_pc,           \* "new" before RateLimiter(...), then "ready", or "failed" when the constructor raised
    rate_per_second,      \* RateLimiter.rate_per_second
    capacity,             \* RateLimiter.capacity
    tokens,               \* RateLimiter._tokens
    last_refill,          \* RateLimiter._last_refill
    limiter_clock,        \* what RateLimiter._clock() returns
    limiter_op,           \* the last call on the rate limiter: its name, argument and result, and the state it found
    threads,              \* the callers that share the cache and the rate limiter: position and locals of each
    granted,              \* the sum of the costs for which allow has returned True since the time `since`
    since,                \* the clock value from which granted is counted
    tool,                 \* GeoTool / POITool: which of the two, and its _ttl_seconds
    client_calls,         \* how many times the provider client of the tool was called
    tool_op,              \* the last tool.run: its argument and what it did, and the run before it
    retry,                \* _invoke_with_transient_retry: its arguments, locals and position
    earlier               \* <<>>, or what an earlier execute call on the same tasks did: <<its plan, calls and outcome>>

executor == <<tripspec, plan, handlers, critical_arg, critical_agents, max_retries,
          confidence_threshold, pc, pending, completed, results, records,
          stages, grouped, gi, ti, stage_task_ids, attempt, last_issues,
          calls, outcome>>

cache == <<max_size, items, cache_clock, cache_op>>

limiter == <<limiter_pc, rate_per_second, capacity, tokens, last_refill,
             limiter_clock, limiter_op>>

callers == <<threads, granted, since>>

tools == <<tool, client_calls, tool_op>>

pipeline == <<tools, retry, earlier>>

shared == <<cache, limiter, callers, pipeline>>

vars == <<executor, shared>>

config == <<tripspec, plan, handlers, critical_arg, critical_agents, max_retries,
            confidence_threshold>>

-----------------------------------------------------------------------------
(* Bounds of the model *)

MaxTasks == 2

MaxRetries == 1

MaxLegs == 3

MaxCacheSize == 2

MaxClock == 2

MaxTime == 2

(* Program constants *)

DefaultMaxRetries == 1

DefaultConfidenceThreshold == 5

-----------------------------------------------------------------------------
(* Strings *)

RECURSIVE StrLess(_, _)
StrLess(a, b) ==
    IF a = <<>> THEN b # <<>>
    ELSE IF b = <<>> THEN FALSE
    ELSE IF Head(a) # Head(b) THEN Head(a) < Head(b)
    ELSE StrLess(Tail(a), Tail(b))

\* "solo:"
SoloPrefix == <<115, 111, 108, 111, 58>>

\* task ids "p", "g", "w", "a" and the parallel_group tag "l"
TaskIdPool == << <<112>>, <<103>>, <<119>>, <<97>> >>

GroupTag == <<108>>

\* a task_id that no plan declares: "x"
DanglingId == <<120>>

\* a non-empty cache_key
SomeCacheKey == <<99>>

-----------------------------------------------------------------------------
(* contracts.py *)

AgentKinds == {"geo", "weather", "poi", "transport", "synth"}

\* faulty variant: synth is critical by default too
DefaultCriticalAgentsAll == {"geo", "weather", "poi", "transport", "synth"}

DefaultCriticalAgents == {"geo", "weather", "poi", "transport"}

RetryableIssues == {"schema_invalid", "evidence_empty", "confidence_low"}

\* What a handler call can do: raise, or return a payload.  A payload that is
\* a StandardAgentResult (or a dict holding its required fields) carries the
\* fields the executor reads.
Raises == [kind |-> "raise", evidence |-> 0, confidence |-> 0, cache_key |-> <<>>]

BadPayload == [kind |-> "invalid", evidence |-> 0, confidence |-> 0, cache_key |-> <<>>]

ResultPayload(ev, conf, key) ==
    [kind |-> "result", evidence |-> ev, confidence |-> conf, cache_key |-> key]

\* faulty variant: the range of confidence is not validated
ModelValidatesNoRange(raw) == raw.kind = "result"

\* StandardAgentResult.model_validate: required fields present and
\* 0.0 <= confidence <= 1.0
ModelValidates(raw) ==
    /\ raw.kind = "result"
    /\ raw.confidence >= 0
    /\ raw.confidence <= 10


\* What a handler may do when called.  A one-task plan meets every kind of
\* return value; a longer plan meets one of each class: an exception (not
\* retried), a payload that does not parse (retried) and a result without
\* issue.
AllReturns ==
    { Raises, BadPayload, ResultPayload(1, 11, SomeCacheKey),
      ResultPayload(1, 9, SomeCacheKey) }
    \cup { ResultPayload(ev, conf, key) :
             ev \in {0, 1}, conf \in {4, 5}, key \in {<<>>, SomeCacheKey} }

CoreReturns == { Raises, BadPayload, ResultPayload(1, 5, SomeCacheKey) }

ValidReturns == { ResultPayload(1, 5, SomeCacheKey) }

HandlerReturns ==
    IF tripspec # <<>> THEN ValidReturns
    ELSE IF Len(plan) = 1 THEN AllReturns ELSE CoreReturns

-----------------------------------------------------------------------------
(* executor.py *)

\* {task.task_id: task for task in plan.tasks}: the keys in insertion order
DictKeys(p) ==
    LET F[i \in 0..Len(p)] ==
            IF i = 0 THEN <<>>
            ELSE IF \E j \in 1..(i - 1) : p[j].task_id = p[i].task_id
                 THEN F[i - 1]
                 ELSE Append(F[i - 1], p[i].task_id)
    IN  F[Len(p)]

\* pending[task_id]: the last task of the plan with that id
TaskOf(id) ==
    LET idx == CHOOSE i \in 1..Len(plan) :
                   /\ plan[i].task_id = id
                   /\ \A j \in (i + 1)..Len(plan) : plan[j].task_id # id
    IN  plan[idx]

SeqToSet(s) == {s[i] : i \in 1..Len(s)}

\* faulty variant: every pending task is ready, whatever it depends on
IsReadyAlways(id) == TRUE

\* ready = [task for task in pending.values() if all(dep in completed ...)]
IsReady(id) == TaskOf(id).depends_on \subseteq completed

Ready == SelectSeq(pending, IsReady)

\* faulty variant: an ungrouped task is keyed by its bare task_id
GroupKeyOwnId(task) ==
    IF task.parallel_group # <<>> THEN task.parallel_group ELSE task.task_id

\* key = task.parallel_group or f"solo:{task.task_id}"
GroupKey(task) ==
    IF task.parallel_group # <<>> THEN task.parallel_group
    ELSE SoloPrefix \o task.task_id

\* sorted(...) of a set of distinct strings
RECURSIVE SortStrs(_)
SortStrs(S) ==
    IF S = {} THEN <<>>
    ELSE LET m == CHOOSE x \in S : \A y \in S : x = y \/ StrLess(x, y)
         IN  <<m>> \o SortStrs(S \ {m})

\* faulty variant: a bucket keeps the order in which the ready tasks came
SortByTaskIdNot(bucket) == bucket

\* _group_ready_tasks
\* sorted(buckets[key], key=lambda t: t.task_id)
SortByTaskId(bucket) == SortStrs(SeqToSet(bucket))

\* _group_ready_tasks
GroupReadyTasks(ready) ==
    LET Bucket(key) == SelectSeq(ready, LAMBDA id : GroupKey(TaskOf(id)) = key)
        keys == SortStrs({GroupKey(TaskOf(id)) : id \in SeqToSet(ready)})
    IN  [k \in 1..Len(keys) |-> SortByTaskId(Bucket(keys[k]))]

\* faulty variant: a confidence equal to the threshold counts as low
SemanticIssuesStrict(result) ==
    (IF result.evidence = 0 THEN <<"evidence_empty">> ELSE <<>>)
    \o (IF result.confidence <= confidence_threshold
        THEN <<"confidence_low">> ELSE <<>>)
    \o (IF result.cache_key = <<>> THEN <<"consistency_invalid">> ELSE <<>>)

\* the semantic checks of _invoke_and_evaluate
SemanticIssues(result) ==
    (IF result.evidence = 0 THEN <<"evidence_empty">> ELSE <<>>)
    \o (IF result.confidence < confidence_threshold
        THEN <<"confidence_low">> ELSE <<>>)
    \o (IF result.cache_key = <<>> THEN <<"consistency_invalid">> ELSE <<>>)

\* _invoke_and_evaluate: raw is what the handler does if it is called
InvokeAndEvaluate(task, raw) ==
    IF task.agent \notin handlers
    THEN [result |-> <<>>, issues |-> <<"handler_missing">>, invoked |-> FALSE]
    ELSE IF raw.kind = "raise"
    THEN [result |-> <<>>, issues |-> <<"handler_exception">>, invoked |-> TRUE]
    ELSE IF ~ModelValidates(raw)
    THEN [result |-> <<>>, issues |-> <<"schema_invalid">>, invoked |-> TRUE]
    ELSE [result |-> <<raw>>, issues |-> SemanticIssues(raw), invoked |-> TRUE]

\* retryable = any(item in {...} for item in issues)
Retryable(issues) == \E i \in 1..Len(issues) : issues[i] \in RetryableIssues

\* faulty variant: the first attempt is counted as a retry
MaxAttemptsNoExtra == max_retries

\* max_attempts = self._max_retries + 1
MaxAttempts == max_retries + 1

\* faulty variant: any issue is retried while attempts remain
ShouldRetryAnyIssue(issues) == attempt < MaxAttempts

\* attempt < max_attempts and retryable
ShouldRetry(issues) == attempt < MaxAttempts /\ Retryable(issues)

TaskExecutionRecord(task, success, attempts, issues) ==
    [task_id |-> task.task_id, agent |-> task.agent, success |-> success,
     attempts |-> attempts, issues |-> issues]

\* faulty variant: no failure is treated as critical
IsCriticalNever(task) == FALSE

\* task.agent in self._critical_agents
IsCritical(task) == task.agent \in critical_agents

\* self._critical_agents = critical_agents or {"geo", "weather", "poi", "transport"}
CriticalAgentsOf(arg) ==
    IF arg = <<>> \/ arg[1] = {} THEN DefaultCriticalAgents ELSE arg[1]

CurrentTask == TaskOf(grouped[gi][ti])


\* faulty variant: the task stays pending
RemoveNothing(seq, id) == seq

\* pending.pop(task.task_id, None)
Remove(seq, id) == SelectSeq(seq, LAMBDA x : x # id)

\* faulty variant: the result is not stored
PutDropped(map, id, value) == map

\* results[task.task_id] = result
Put(map, id, value) ==
    [x \in DOMAIN map \cup {id} |-> IF x = id THEN value ELSE map[x]]

\* f"I need clarification because task '{task.task_id}' failed ({', '.join(issues)})."
\* kept as the two interpolated parts
Question(task, issues) == [task_id |-> task.task_id, issues |-> issues]

ExecutionOutcome(status, res, recs, stgs, question) ==
    [status |-> status, results |-> res, records |-> recs, stages |-> stgs,
     clarifying_question |-> question]

-----------------------------------------------------------------------------
(* The plans and configurations of a run *)

PlanAgents == {"geo", "synth"}

PlanIds(n) == {TaskIdPool[i] : i \in 1..n}

DependsChoices(n) == {{}} \cup {{d} : d \in PlanIds(n) \cup {DanglingId}}

PlanTask(id, agent, deps, group) ==
    [task_id |-> id, agent |-> agent, depends_on |-> deps, parallel_group |-> group]

Plans(n) ==
    { [i \in 1..n |-> PlanTask(TaskIdPool[i], a[i], d[i], g[i])] :
        a \in [1..n -> PlanAgents],
        d \in [1..n -> DependsChoices(n)],
        g \in [1..n -> {<<>>, GroupTag}] }

CriticalChoices == {<<>>} \cup {<<S>> : S \in SUBSET PlanAgents}

CriticalChoicesLong == {<<>>, <<{}>>, <<{"synth"}>>}

HandlerChoices == {AgentKinds, AgentKinds \ {"geo"}, AgentKinds \ {"synth"}}

-----------------------------------------------------------------------------
(* planner.py: OrchestratorPlanner.generate *)

\* str(n) of an f-string
RECURSIVE DecimalStr(_)
DecimalStr(n) ==
    IF n < 10 THEN <<48 + n>> ELSE DecimalStr(n \div 10) \o <<48 + (n % 10)>>

Underscore == <<95>>

\* f"geo_leg_{idx}"
GeoId(idx) == <<103, 101, 111, 95, 108, 101, 103, 95>> \o DecimalStr(idx)

\* f"weather_leg_{idx}"
WeatherId(idx) == <<119, 101, 97, 116, 104, 101, 114, 95, 108, 101, 103, 95>> \o DecimalStr(idx)

\* f"poi_leg_{idx}"
PoiId(idx) == <<112, 111, 105, 95, 108, 101, 103, 95>> \o DecimalStr(idx)

\* f"transport_leg_{idx - 1}_{idx}"
TransportId(idx) ==
    <<116, 114, 97, 110, 115, 112, 111, 114, 116, 95, 108, 101, 103, 95>> \o DecimalStr(idx - 1) \o Underscore \o DecimalStr(idx)

\* "synth_trip"
SynthTripId == <<115, 121, 110, 116, 104, 95, 116, 114, 105, 112>>

\* f"transfer_{idx - 1}_{idx}"
TransferGroup(idx) ==
    <<116, 114, 97, 110, 115, 102, 101, 114, 95>> \o DecimalStr(idx - 1) \o Underscore \o DecimalStr(idx)

\* f"leg_{idx}_enrichment"
EnrichmentGroup(idx) == <<108, 101, 103, 95>> \o DecimalStr(idx) \o <<95, 101, 110, 114, 105, 99, 104, 109, 101, 110, 116>>

\* the legs of a TripSpec: geo is <<>> for None, else the resolved point
Resolved == <<"point">>

TripLeg(geo) == [geo |-> geo]

TripSpecs(n) == [1..n -> {TripLeg(<<>>), TripLeg(Resolved)}]

\* faulty variant: a geo task for every leg
InLegGeoTaskAlways(legs, idx) == TRUE

\* idx in leg_geo_task: set by "if leg.geo is None" in iteration idx
InLegGeoTask(legs, idx) == legs[idx + 1].geo = <<>>

\* the geo task of iteration idx, if any
GeoTasks(legs, idx) ==
    IF InLegGeoTask(legs, idx)
    THEN << PlanTask(GeoId(idx), "geo", {}, <<>>) >>
    ELSE <<>>

\* faulty variant: the transfer waits for the enrichment of its own leg
TransportDependsOnOwnLeg(legs, idx) ==
    <<WeatherId(idx), PoiId(idx)>>
    \o (IF InLegGeoTask(legs, idx) THEN <<GeoId(idx)>> ELSE <<>>)

\* depends_on of the transport task of iteration idx
TransportDependsOn(legs, idx) ==
    <<WeatherId(idx - 1), PoiId(idx - 1)>>
    \o (IF InLegGeoTask(legs, idx) THEN <<GeoId(idx)>> ELSE <<>>)

\* faulty variant: no transfer into the last leg
HasTransportToNext(legs, idx) == idx > 0 /\ idx < Len(legs) - 1

\* if idx > 0
HasTransport(legs, idx) == idx > 0

\* the transport task of iteration idx, if any
TransportTasks(legs, idx) ==
    IF HasTransport(legs, idx)
    THEN << PlanTask(TransportId(idx), "transport",
                     SeqToSet(TransportDependsOn(legs, idx)), TransferGroup(idx)) >>
    ELSE <<>>

\* weather_deps and poi_deps
EnrichmentDeps(legs, idx) ==
    IF InLegGeoTask(legs, idx) THEN <<GeoId(idx)>> ELSE <<>>

\* the weather and the poi task of iteration idx
EnrichmentTasks(legs, idx) ==
    << PlanTask(WeatherId(idx), "weather",
                SeqToSet(EnrichmentDeps(legs, idx)), EnrichmentGroup(idx)),
       PlanTask(PoiId(idx), "poi",
                SeqToSet(EnrichmentDeps(legs, idx)), EnrichmentGroup(idx)) >>

\* tasks after the iterations 0 .. n-1 of the loop over the legs
RECURSIVE LegTasks(_, _)
LegTasks(legs, n) ==
    IF n = 0 THEN <<>>
    ELSE LegTasks(legs, n - 1)
         \o GeoTasks(legs, n - 1)
         \o TransportTasks(legs, n - 1)
         \o EnrichmentTasks(legs, n - 1)

\* transport_task_ids after the loop over the legs
TransportTaskIds(legs) ==
    LET tasks == LegTasks(legs, Len(legs))
        transports == SelectSeq(tasks, LAMBDA t : t.agent = "transport")
    IN [k \in 1..Len(transports) |-> transports[k].task_id]

\* the first loop building synth_deps
RECURSIVE EnrichmentTaskIds(_)
EnrichmentTaskIds(n) ==
    IF n = 0 THEN <<>>
    ELSE EnrichmentTaskIds(n - 1) \o <<WeatherId(n - 1), PoiId(n - 1)>>

\* faulty variant: synth_trip waits for nothing
SynthDepsNone(legs) == <<>>

\* faulty variant: synth_deps without the transport tasks
SynthDepsNoTransport(legs) == EnrichmentTaskIds(Len(legs))

\* synth_deps
SynthDeps(legs) == EnrichmentTaskIds(Len(legs)) \o TransportTaskIds(legs)

\* generate(tripspec).tasks
Generate(legs) ==
    Append(LegTasks(legs, Len(legs)),
           PlanTask(SynthTripId, "synth", SeqToSet(SynthDeps(legs)), <<>>))

-----------------------------------------------------------------------------
(* execute *)

Start(p, h, c, r) ==
    /\ tripspec = <<>>
    /\ plan = p
    /\ handlers = h
    /\ critical_arg = c
    /\ critical_agents = CriticalAgentsOf(c)
    /\ max_retries = r
    /\ confidence_threshold = DefaultConfidenceThreshold
    /\ pc = "loop"
    /\ pending = DictKeys(p)
    /\ completed = {}
    /\ results = <<>>
    /\ records = <<>>
    /\ stages = <<>>
    /\ grouped = <<>>
    /\ gi = 0
    /\ ti = 0
    /\ stage_task_ids = <<>>
    /\ attempt = 1
    /\ last_issues = <<>>
    /\ calls = <<>>
    /\ outcome = <<>>

\* the handlers of the run use neither cache nor rate limiter
NoSharedResource ==
    /\ max_size = 0
    /\ items = <<>>
    /\ cache_clock = 0
    /\ cache_op = <<>>
    /\ limiter_pc = "none"
    /\ rate_per_second = <<0, 1>>
    /\ capacity = <<0, 1>>
    /\ tokens = <<0, 1>>
    /\ last_refill = <<0, 1>>
    /\ limiter_clock = <<0, 1>>
    /\ limiter_op = <<>>
    /\ threads = <<>>
    /\ granted = <<0, 1>>
    /\ since = <<0, 1>>
    /\ tool = <<>>
    /\ client_calls = 0
    /\ tool_op = <<>>
    /\ retry = <<>>
    /\ earlier = <<>>

\* before planner.generate(tripspec); the executor is built with its defaults
StartFromTripSpec(legs) ==
    /\ tripspec = legs
    /\ plan = <<>>
    /\ handlers = AgentKinds
    /\ critical_arg = <<>>
    /\ critical_agents = CriticalAgentsOf(<<>>)
    /\ max_retries = DefaultMaxRetries
    /\ confidence_threshold = DefaultConfidenceThreshold
    /\ pc = "plan"
    /\ pending = <<>>
    /\ completed = {}
    /\ results = <<>>
    /\ records = <<>>
    /\ stages = <<>>
    /\ grouped = <<>>
    /\ gi = 0
    /\ ti = 0
    /\ stage_task_ids = <<>>
    /\ attempt = 1
    /\ last_issues = <<>>
    /\ calls = <<>>
    /\ outcome = <<>>

\* Plans of every shape under the default retry policy with every handler
\* registered, one-task plans under every configuration, and trips of every
\* pattern of resolved and unresolved legs whose plan the planner builds.
Init ==
    /\ \/ \E n \in 1..MaxLegs : \E legs \in TripSpecs(n) : StartFromTripSpec(legs)
       \/ \E n \in 1..MaxTasks : \E p \in Plans(n) : \E c \in CriticalChoicesLong :
             Start(p, AgentKinds, c, DefaultMaxRetries)
       \/ \E p \in Plans(1) : \E h \in HandlerChoices : \E c \in CriticalChoices :
          \E r \in (-1)..MaxRetries :
             Start(p, h, c, r)
    /\ NoSharedResource

\* plan = OrchestratorPlanner().generate(tripspec); executor.execute(plan)
GeneratePlan ==
    /\ pc = "plan"
    /\ plan' = Generate(tripspec)
    /\ pending' = DictKeys(plan')
    /\ pc' = "loop"
    /\ UNCHANGED <<shared, tripspec, handlers, critical_arg, critical_agents, max_retries,
                   confidence_threshold, completed, results, records, stages,
                   grouped, gi, ti, stage_task_ids, attempt, last_issues, calls,
                   outcome>>

\* while pending: ... grouped = self._group_ready_tasks(ready)
SchedulePass ==
    /\ pc = "loop"
    /\ pending # <<>>
    /\ Ready # <<>>
    /\ grouped' = GroupReadyTasks(Ready)
    /\ gi' = 1
    /\ ti' = 1
    /\ stage_task_ids' = <<>>
    /\ attempt' = 1
    /\ last_issues' = <<>>
    /\ pc' = "run"
    /\ UNCHANGED <<shared, config, pending, completed, results, records, stages, calls,
                   outcome>>

\* faulty variant: execute returns what it has when nothing is ready
ReturnOnUnresolved ==
    /\ pc = "loop"
    /\ pending # <<>>
    /\ Ready = <<>>
    /\ pc' = "returned"
    /\ outcome' = <<ExecutionOutcome("completed", results, records, stages, <<>>)>>
    /\ UNCHANGED <<shared, config, pending, completed, results, records, stages, grouped,
                   gi, ti, stage_task_ids, attempt, last_issues, calls>>

\* if not ready: raise RuntimeError(...)
RaiseUnresolved ==
    /\ pc = "loop"
    /\ pending # <<>>
    /\ Ready = <<>>
    /\ pc' = "raised"
    /\ UNCHANGED <<shared, config, pending, completed, results, records, stages, grouped,
                   gi, ti, stage_task_ids, attempt, last_issues, calls, outcome>>

\* faulty variant: execute returns after one pass
ReturnCompletedEarly ==
    /\ pc = "loop"
    /\ records # <<>> \/ pending = <<>>
    /\ pc' = "returned"
    /\ outcome' = <<ExecutionOutcome("completed", results, records, stages, <<>>)>>
    /\ UNCHANGED <<shared, config, pending, completed, results, records, stages, grouped,
                   gi, ti, stage_task_ids, attempt, last_issues, calls>>

\* the return after the while loop
ReturnCompleted ==
    /\ pc = "loop"
    /\ pending = <<>>
    /\ pc' = "returned"
    /\ outcome' = <<ExecutionOutcome("completed", results, records, stages, <<>>)>>
    /\ UNCHANGED <<shared, config, pending, completed, results, records, stages, grouped,
                   gi, ti, stage_task_ids, attempt, last_issues, calls>>

\* faulty variant: a stage is appended for every group, successful or not
StagesAfterGroupAlways(stage) == Append(stages, stage)

\* if stage_task_ids: stages.append(stage_task_ids)
StagesAfterGroup(stage) == IF stage # <<>> THEN Append(stages, stage) ELSE stages

\* the end of one iteration of "for task in group", and of "for group in
\* grouped" after the group's last task
NextTask(stage) ==
    /\ attempt' = 1
    /\ last_issues' = <<>>
    /\ IF ti < Len(grouped[gi])
       THEN /\ ti' = ti + 1
            /\ stage_task_ids' = stage
            /\ UNCHANGED <<stages, gi, grouped, pc>>
       ELSE /\ stages' = StagesAfterGroup(stage)
            /\ stage_task_ids' = <<>>
            /\ IF gi < Len(grouped)
               THEN /\ gi' = gi + 1
                    /\ ti' = 1
                    /\ UNCHANGED <<grouped, pc>>
               ELSE /\ gi' = 0
                    /\ ti' = 0
                    /\ grouped' = <<>>
                    /\ pc' = "loop"

\* execute after _execute_task_with_retry returned success
TaskSucceeded(task, result, attempts) ==
    /\ records' = Append(records, TaskExecutionRecord(task, TRUE, attempts, <<>>))
    /\ results' = Put(results, task.task_id, result)
    /\ completed' = completed \cup {task.task_id}
    /\ pending' = Remove(pending, task.task_id)
    /\ NextTask(Append(stage_task_ids, task.task_id))
    /\ UNCHANGED outcome

\* faulty variant: a task that failed is not marked completed
CompletedAfterFailureNot(task) == completed

\* completed.add(task.task_id) on the failure path
CompletedAfterFailure(task) == completed \cup {task.task_id}

\* faulty variant: a task that failed is listed in the stage of its group
StageAfterFailureListed(task) == Append(stage_task_ids, task.task_id)

\* stage_task_ids on the failure path: `continue` skips the append
StageAfterFailure(task) == stage_task_ids

\* execute after _execute_task_with_retry returned failure
TaskFailed(task, attempts, issues) ==
    /\ records' = Append(records, TaskExecutionRecord(task, FALSE, attempts, issues))
    /\ IF IsCritical(task)
       THEN /\ pc' = "returned"
            /\ outcome' = <<ExecutionOutcome("clarification_needed", results,
                                             records', stages,
                                             <<Question(task, issues)>>)>>
            /\ UNCHANGED <<pending, completed, results, stages, grouped, gi, ti,
                           stage_task_ids, attempt, last_issues>>
       ELSE /\ completed' = CompletedAfterFailure(task)
            /\ pending' = Remove(pending, task.task_id)
            /\ NextTask(StageAfterFailure(task))
            /\ UNCHANGED <<results, outcome>>

Invoked(task, raw, ev) ==
    IF ev.invoked THEN Append(calls, [task_id |-> task.task_id, raw |-> raw])
    ELSE calls

\* one iteration of "for attempt in range(1, max_attempts + 1)" that ends in
\* "continue"
AttemptRetry ==
    /\ pc = "run"
    /\ attempt <= MaxAttempts
    /\ \E raw \in HandlerReturns :
         LET ev == InvokeAndEvaluate(CurrentTask, raw) IN
         /\ ev.issues # <<>>
         /\ ShouldRetry(ev.issues)
         /\ calls' = Invoked(CurrentTask, raw, ev)
         /\ last_issues' = ev.issues
         /\ attempt' = attempt + 1
    /\ UNCHANGED <<shared, config, pc, pending, completed, results, records, stages,
                   grouped, gi, ti, stage_task_ids, outcome>>

\* one iteration that returns success
AttemptSuccess ==
    /\ pc = "run"
    /\ attempt <= MaxAttempts
    /\ \E raw \in HandlerReturns :
         LET ev == InvokeAndEvaluate(CurrentTask, raw) IN
         /\ ev.issues = <<>>
         /\ calls' = Invoked(CurrentTask, raw, ev)
         /\ TaskSucceeded(CurrentTask, ev.result[1], attempt)
    /\ UNCHANGED <<shared, config>>

\* one iteration that ends in "break"
AttemptFailure ==
    /\ pc = "run"
    /\ attempt <= MaxAttempts
    /\ \E raw \in HandlerReturns :
         LET ev == InvokeAndEvaluate(CurrentTask, raw) IN
         /\ ev.issues # <<>>
         /\ ~ShouldRetry(ev.issues)
         /\ calls' = Invoked(CurrentTask, raw, ev)
         /\ TaskFailed(CurrentTask, attempt, ev.issues)
    /\ UNCHANGED <<shared, config>>

\* range(1, max_attempts + 1) is empty: the loop body never runs and the
\* failure is built from last_attempt = 1 and last_issues = []
NoAttempt ==
    /\ pc = "run"
    /\ MaxAttempts < 1
    /\ TaskFailed(CurrentTask, 1, last_issues)
    /\ UNCHANGED <<shared, config, calls>>

Next ==
    \/ GeneratePlan
    \/ SchedulePass
    \/ RaiseUnresolved
    \/ ReturnCompleted
    \/ AttemptRetry
    \/ AttemptSuccess
    \/ AttemptFailure
    \/ NoAttempt

Spec == Init /\ [][Next]_vars

-----------------------------------------------------------------------------
(* Properties *)

RecordedIds == {records[i].task_id : i \in 1..Len(records)}

\* the positions in calls of the invocations for task id
CallsFor(id) == {i \in 1..Len(calls) : calls[i].task_id = id}

\* the tasks of the current pass, in the order in which they are processed
RECURSIVE Flatten(_)
Flatten(groups) ==
    IF groups = <<>> THEN <<>> ELSE Head(groups) \o Flatten(Tail(groups))

\* how many tasks of the current pass have been processed
ProcessedInPass == Len(Flatten(SubSeq(grouped, 1, gi - 1))) + (ti - 1)

\* C1: a handler is invoked only in a state where every dependency of its
\* task is in completed and has a record; every invocation of a dependency
\* precedes every invocation of the task that depends on it.
C1_DependenciesFirst ==
    /\ pc = "run" =>
         /\ CurrentTask.depends_on \subseteq completed
         /\ CurrentTask.depends_on \subseteq RecordedIds
    /\ \A i \in 1..Len(calls) :
         \A d \in TaskOf(calls[i].task_id).depends_on :
            /\ d \in RecordedIds
            /\ d # calls[i].task_id
            /\ \A j \in CallsFor(d) : j < i

\* a handler has been invoked for a task whose dependency was invoked before
C1_Witness ==
    \E i \in 1..Len(calls) :
       \E d \in TaskOf(calls[i].task_id).depends_on : CallsFor(d) # {}

\* The key of the task's group as C2 states it: the parallel_group tag, or
\* the task's own task_id if it has none.
C2_StatedKey(id) ==
    IF TaskOf(id).parallel_group # <<>> THEN TaskOf(id).parallel_group ELSE id

\* The key the executor sorts by: the tag, or "solo:" followed by the task_id.
C2_SoloKey(id) ==
    IF TaskOf(id).parallel_group # <<>> THEN TaskOf(id).parallel_group
    ELSE <<115, 111, 108, 111, 58>> \o id

\* C2 as stated: groups are processed in ascending order of a key that is the
\* tag of a tagged group and the task_id of an ungrouped task.
C2_StatedOrder ==
    pc = "run" =>
       \A k \in 1..(Len(grouped) - 1) :
          StrLess(C2_StatedKey(grouped[k][1]), C2_StatedKey(grouped[k + 1][1]))

\* C2 (amended): in each pass the ready tasks are split by key, the key of a
\* task being its parallel_group tag or, without one, "solo:" followed by its
\* task_id; tasks with equal keys form one group; groups are processed in
\* ascending order of key and the tasks of a group in ascending order of
\* task_id.
C2_GroupOrder ==
    pc = "run" =>
       LET order == Flatten(grouped)
           done == {order[k] : k \in 1..ProcessedInPass}
           started == SeqToSet(pending) \cup done
       IN
       \* the groups hold the tasks that were ready when the pass began
       /\ SeqToSet(order) =
             {id \in started : TaskOf(id).depends_on \subseteq completed \ done}
       /\ \A k \in 1..Len(grouped) :
             /\ grouped[k] # <<>>
             /\ \A m \in 1..Len(grouped[k]) :
                   C2_SoloKey(grouped[k][m]) = C2_SoloKey(grouped[k][1])
             /\ \A m \in 1..(Len(grouped[k]) - 1) :
                   StrLess(grouped[k][m], grouped[k][m + 1])
       /\ \A k \in 1..(Len(grouped) - 1) :
             StrLess(C2_SoloKey(grouped[k][1]), C2_SoloKey(grouped[k + 1][1]))
       \* the tasks processed so far are the head of that order
       /\ ProcessedInPass <= Len(records)
       /\ \A k \in 1..ProcessedInPass :
             records[Len(records) - ProcessedInPass + k].task_id = order[k]

\* a tagged group has been processed before an ungrouped task whose task_id
\* sorts before the tag
C2_Witness ==
    /\ pc = "run"
    /\ gi = 2
    /\ TaskOf(grouped[1][1]).parallel_group # <<>>
    /\ TaskOf(grouped[2][1]).parallel_group = <<>>
    /\ StrLess(grouped[2][1], TaskOf(grouped[1][1]).parallel_group)

\* C3: after an attempt that leaves issues another attempt is made iff fewer
\* than max_retries + 1 attempts have been made and the issues contain one
\* of schema_invalid, evidence_empty, confidence_low.
C3_RetryRule ==
    LET HasRetryable(issues) ==
            \E i \in 1..Len(issues) :
               issues[i] \in {"schema_invalid", "evidence_empty", "confidence_low"}
    IN
    \* another attempt is under way: the one before left a retryable issue
    \* and was not the last one allowed
    /\ (pc = "run" /\ attempt > 1) =>
          /\ last_issues # <<>>
          /\ HasRetryable(last_issues)
          /\ attempt <= max_retries + 1
    \* the attempts ended on a failure: the last one left no retryable issue
    \* or no attempt remained
    /\ \A i \in 1..Len(records) :
          (~records[i].success /\ records[i].issues # <<>>) =>
             \/ records[i].attempts = max_retries + 1
             \/ ~HasRetryable(records[i].issues)

\* a task was given up after its first attempt although another was allowed,
\* and the next task is in its second attempt after a retryable issue
C3_Witness ==
    /\ pc = "run"
    /\ attempt = 2
    /\ last_issues = <<"schema_invalid">>
    /\ \E i \in 1..Len(records) :
          /\ ~records[i].success
          /\ records[i].attempts = 1
          /\ records[i].attempts < max_retries + 1


Last(seq) == seq[Len(seq)]

\* record i is that of a task that failed and whose agent kind is critical
CriticalFailureAt(i) ==
    /\ ~records[i].success
    /\ records[i].agent \in critical_agents

\* C4: when a task with a critical agent kind fails, execute returns at
\* once with status clarification_needed: the failed task's record is the last
\* one, the question holds its task_id and issue codes, no handler is invoked
\* after the task's last attempt and no step of execute follows.
C4_CriticalFailureStops ==
    \A i \in 1..Len(records) :
       CriticalFailureAt(i) =>
          /\ i = Len(records)
          /\ pc = "returned"
          /\ ~ENABLED Next
          /\ outcome =
               <<[status |-> "clarification_needed",
                  results |-> results,
                  records |-> records,
                  stages |-> stages,
                  clarifying_question |->
                     <<[task_id |-> records[i].task_id,
                        issues |-> records[i].issues]>>]>>
          \* every invocation is for the failed task or a task recorded before
          /\ \A j \in 1..Len(calls) :
                \E k \in 1..i : records[k].task_id = calls[j].task_id
          /\ \A j \in 1..Len(calls) : \A k \in CallsFor(records[i].task_id) :
                calls[j].task_id # records[i].task_id => j < k
          \* the rest of the group and the later groups were left alone
          /\ \A id \in SeqToSet(pending) \ {records[i].task_id} :
                id \notin RecordedIds /\ id \notin completed

\* execute has returned on a critical failure while another task of the
\* same group was still to run
C4_Witness ==
    /\ pc = "returned"
    /\ outcome[1].status = "clarification_needed"
    /\ ti < Len(grouped[gi])
    /\ calls # <<>>

\* C5: with the default critical_agents a synth task that fails is recorded
\* with success = FALSE, gets no entry in results and does not stop execute:
\* the tasks still pending are processed, and the status is completed unless
\* a task with a critical agent kind fails.
C5_SynthFailureAbsorbed ==
    critical_arg = <<>> =>
       /\ \A i \in 1..Len(records) :
             (records[i].agent = "synth" /\ ~records[i].success) =>
                /\ records[i].task_id \notin DOMAIN results
                /\ records[i].task_id \in completed
                /\ records[i].task_id \notin SeqToSet(pending)
                /\ pc = "returned" =>
                      \/ outcome[1].status = "completed"
                      \/ /\ i < Len(records)
                         /\ ~Last(records).success
                         /\ Last(records).agent \in {"geo", "weather", "poi", "transport"}
       /\ (pc = "returned" /\ outcome[1].status = "completed") =>
             /\ RecordedIds = {plan[k].task_id : k \in 1..Len(plan)}
             /\ outcome[1].clarifying_question = <<>>

\* under the default critical_agents a synth task failed, a task was
\* processed after it and execute returned completed
C5_Witness ==
    /\ critical_arg = <<>>
    /\ pc = "returned"
    /\ outcome[1].status = "completed"
    /\ \E i \in 1..(Len(records) - 1) :
          records[i].agent = "synth" /\ ~records[i].success

\* C6 as stated: for every set passed as critical_agents, the empty set
\* included, execute returns clarification_needed exactly when a task whose
\* agent kind is in the passed set has failed.
C6_PassedSetDecides ==
    (critical_arg # <<>> /\ pc = "returned") =>
       (outcome[1].status = "clarification_needed"
          <=> \E i \in 1..Len(records) :
                 ~records[i].success /\ records[i].agent \in critical_arg[1])

SuccessfulIds(recs) == {recs[i].task_id : i \in {k \in 1..Len(recs) : recs[k].success}}

Keep(seq, S) == SelectSeq(seq, LAMBDA x : x \in S)

\* C7: a stage is appended to stages only when a group has been processed
\* and at least one of its tasks succeeded; the stage lists the successful
\* tasks of that group, in the group's order, and no failed task; stages only
\* grows, at its end.
C7_StagesAreGroupSuccesses ==
    /\ [](\A k \in 1..Len(stages) :
             /\ stages[k] # <<>>
             /\ SeqToSet(stages[k]) \subseteq SuccessfulIds(records))
    /\ [][ /\ stages' # stages =>
                /\ pc = "run"
                /\ ti = Len(grouped[gi])
                /\ Len(records') = Len(records) + 1
                /\ Keep(grouped[gi], SuccessfulIds(records')) # <<>>
                /\ stages' = Append(stages, Keep(grouped[gi], SuccessfulIds(records')))
           /\ ( /\ pc = "run"
                /\ ti = Len(grouped[gi])
                /\ Len(records') = Len(records) + 1
                /\ pc' # "returned"
                /\ Keep(grouped[gi], SuccessfulIds(records')) # <<>> ) =>
                   stages' # stages
         ]_vars

\* a group of two tasks has been processed in which one task failed and the
\* other succeeded: its stage holds the successful task alone
C7_Witness ==
    \E i, j \in 1..Len(records) :
       /\ ~records[i].success
       /\ records[j].success
       /\ TaskOf(records[i].task_id).parallel_group # <<>>
       /\ TaskOf(records[j].task_id).parallel_group # <<>>
       /\ stages = << <<records[j].task_id>> >>
       /\ pc = "loop"

\* C8 as stated: for any configured max_retries, in every record success is
\* true iff issues is empty.
C8_SuccessIffNoIssues ==
    \A i \in 1..Len(records) : records[i].success <=> records[i].issues = <<>>

\* C9: the keys of results are the task_ids whose record has success = TRUE,
\* each value is what the handler returned in the last invocation for that
\* task, and the outcome carries that mapping.
C9_ResultsAreSuccesses ==
    /\ DOMAIN results = SuccessfulIds(records)
    /\ \A id \in DOMAIN results :
          /\ CallsFor(id) # {}
          /\ \E k \in CallsFor(id) :
                /\ \A j \in CallsFor(id) : j <= k
                /\ results[id] = calls[k].raw
    /\ pc = "returned" => outcome[1].results = results

\* a task succeeded on its second invocation, after a different return value,
\* and another task failed
C9_Witness ==
    /\ \E id \in DOMAIN results :
          \E j, k \in CallsFor(id) : j < k /\ calls[j].raw # results[id]
    /\ \E i \in 1..Len(records) : ~records[i].success
    /\ pc = "returned"

\* a return value that parses and raises no issue under threshold th
C10_Clean(raw, th) ==
    /\ raw.kind = "result"
    /\ raw.confidence >= 0
    /\ raw.confidence <= 10
    /\ raw.evidence > 0
    /\ raw.confidence >= th
    /\ raw.cache_key # <<>>

\* C10: once the k-th invocation for a task has returned a value without
\* issue (the k-1 before it having each left a retryable issue), the task is
\* recorded with success = TRUE, attempts = k and no issues, its handler was
\* invoked exactly k times, and the outcome is not a clarification about it.
C10_RecoversOnRetry ==
    \A id \in {calls[i].task_id : i \in 1..Len(calls)} :
       LET mine == CallsFor(id)
           k == Cardinality(mine)
           last == CHOOSE j \in mine : \A m \in mine : m <= j
       IN  C10_Clean(calls[last].raw, confidence_threshold) =>
              /\ k <= max_retries + 1
              /\ \A j \in mine \ {last} :
                    ~C10_Clean(calls[j].raw, confidence_threshold)
              /\ \E i \in 1..Len(records) :
                    /\ records[i] = [task_id |-> id, agent |-> TaskOf(id).agent,
                                     success |-> TRUE, attempts |-> k,
                                     issues |-> <<>>]
                    /\ \A m \in 1..Len(records) :
                          records[m].task_id = id => m = i
              /\ id \in completed
              /\ pc = "returned" =>
                    \/ outcome[1].status = "completed"
                    \/ Last(records).task_id # id

\* a task is recorded as a success of two attempts
C10_Witness ==
    \E i \in 1..Len(records) :
       /\ records[i].success
       /\ records[i].attempts = 2
       /\ Cardinality(CallsFor(records[i].task_id)) = 2


\* The issue list of one attempt as C12 states it, for a handler that is
\* registered and does raw under threshold th.
StatedIssues(raw, th) ==
    IF raw.kind = "raise" THEN <<"handler_exception">>
    ELSE IF raw.kind # "result" \/ raw.confidence < 0 \/ raw.confidence > 10
    THEN <<"schema_invalid">>
    ELSE (IF raw.evidence = 0 THEN <<"evidence_empty">> ELSE <<>>)
         \o (IF raw.confidence < th THEN <<"confidence_low">> ELSE <<>>)
         \o (IF raw.cache_key = <<>> THEN <<"consistency_invalid">> ELSE <<>>)

HasRetryableIssue(issues) ==
    \E i \in 1..Len(issues) :
       issues[i] \in {"schema_invalid", "evidence_empty", "confidence_low"}

\* the invocations for task id, in order
CallSeqFor(id) == SelectSeq(calls, LAMBDA c : c.task_id = id)

\* C11: a recorded task whose every attempt ended with a retryable issue has
\* used all the attempts allowed: its record has success = FALSE,
\* attempts = max_retries + 1, one invocation per attempt, and the issues of
\* the last attempt.
C11_RetryableExhaustsAttempts ==
    \A i \in 1..Len(records) :
       LET mine == CallSeqFor(records[i].task_id) IN
       ( /\ mine # <<>>
         /\ \A k \in 1..Len(mine) :
               HasRetryableIssue(StatedIssues(mine[k].raw, confidence_threshold)) )
       => /\ ~records[i].success
          /\ records[i].attempts = max_retries + 1
          /\ Len(mine) = max_retries + 1
          /\ records[i].issues =
                StatedIssues(mine[Len(mine)].raw, confidence_threshold)

\* the case of the test: a critical task whose handler returned an invalid
\* payload twice under max_retries = 1
C11_Witness ==
    /\ pc = "returned"
    /\ outcome[1].status = "clarification_needed"
    /\ max_retries = 1
    /\ Len(records) = 1
    /\ records[1].attempts = 2
    /\ records[1].issues = <<"schema_invalid">>
    /\ Len(calls) = 2
    /\ calls[1].raw.kind = "invalid"

\* C12: one attempt gives [handler_missing] and no invocation when no handler
\* is registered for the agent kind; otherwise [handler_exception] when the
\* handler raises, [schema_invalid] when the payload does not parse, and else
\* those of evidence_empty, confidence_low, consistency_invalid, in that
\* order, whose condition holds (confidence strictly below the threshold).
C12_AttemptClassification ==
    \* the attempt before the one under way
    /\ (pc = "run" /\ attempt > 1) =>
          /\ CurrentTask.agent \in handlers
          /\ calls # <<>>
          /\ Last(calls).task_id = CurrentTask.task_id
          /\ last_issues = StatedIssues(Last(calls).raw, confidence_threshold)
    \* the last attempt of a recorded task
    /\ \A i \in 1..Len(records) :
          LET mine == CallSeqFor(records[i].task_id) IN
          IF records[i].agent \notin handlers
          THEN max_retries >= 0 =>
                  (mine = <<>> /\ records[i].issues = <<"handler_missing">>)
          ELSE max_retries >= 0 =>
                  /\ mine # <<>>
                  /\ records[i].issues =
                        StatedIssues(mine[Len(mine)].raw, confidence_threshold)

\* a payload whose confidence is out of range was retried, and the next
\* attempt left the three semantic issues
C12_Witness ==
    \E i \in 1..Len(records) :
       /\ records[i].issues =
             <<"evidence_empty", "confidence_low", "consistency_invalid">>
       /\ records[i].attempts = 2
       /\ calls[1].raw.kind = "result"
       /\ calls[1].raw.confidence > 10


PlanTaskIds == {plan[k].task_id : k \in 1..Len(plan)}

RecordsOf(id) == {i \in 1..Len(records) : records[i].task_id = id}

\* C13: execute returns with one of two statuses.  It returns completed iff
\* every task of the plan was processed and no task with a critical agent
\* kind failed; then every task_id of the plan has exactly one record and
\* there is no question.  It returns clarification_needed iff a task with a
\* critical agent kind failed, and it does so at the first such failure.
C13_TwoTerminalOutcomes ==
    LET critical_failures ==
            {i \in 1..Len(records) :
                ~records[i].success /\ records[i].agent \in critical_agents}
    IN
    /\ outcome # <<>> <=> pc = "returned"
    /\ pc = "returned" =>
          /\ outcome[1].status \in {"completed", "clarification_needed"}
          /\ outcome[1].records = records
          /\ outcome[1].status = "completed" <=>
                /\ critical_failures = {}
                /\ \A id \in PlanTaskIds : Cardinality(RecordsOf(id)) = 1
          /\ outcome[1].status = "completed" =>
                /\ outcome[1].clarifying_question = <<>>
                /\ RecordedIds = PlanTaskIds
          /\ outcome[1].status = "clarification_needed" <=>
                critical_failures = {Len(records)}
    /\ pc # "returned" => critical_failures = {}

\* execute has returned completed with a failed task of a non-critical kind
\* among its records
C13_Witness ==
    /\ pc = "returned"
    /\ outcome[1].status = "completed"
    /\ Len(records) >= 2
    /\ \E i \in 1..Len(records) : ~records[i].success

\* C14: within one execute call a task_id gets at most one record, an entry
\* of results is written once and never changed, and no handler is invoked
\* for a task that has a record.
C14_ProcessedOnce ==
    /\ [](\A i, j \in 1..Len(records) :
             records[i].task_id = records[j].task_id => i = j)
    /\ [][ /\ \A id \in DOMAIN results :
                id \in DOMAIN results' /\ results'[id] = results[id]
           /\ Len(records') >= Len(records)
           /\ SubSeq(records', 1, Len(records)) = records
           /\ calls' # calls =>
                /\ Len(calls') = Len(calls) + 1
                /\ calls'[Len(calls')].task_id \notin RecordedIds
         ]_vars

\* a task that failed under a non-critical kind is in completed and a later
\* pass has been scheduled
C14_Witness ==
    /\ pc = "run"
    /\ \E i \in 1..Len(records) :
          /\ ~records[i].success
          /\ records[i].task_id \notin SeqToSet(Flatten(grouped))
    /\ ProcessedInPass = 0
    /\ calls # <<>>

\* a measure of the work left in execute
WorkLeft ==
    LET allowed == IF max_retries >= 0 THEN max_retries + 1 ELSE 1 IN
    IF pc \in {"returned", "raised"} THEN 0
    ELSE IF pc = "plan" THEN 2 + (allowed + 2) * (4 * Len(tripspec) + 2)
    ELSE 1 + (allowed + 2) * Len(pending)
           + (IF pc = "run" THEN allowed - attempt ELSE allowed)

\* C15: when a pass begins with tasks pending of which none has all its
\* dependencies in completed, execute raises and returns no outcome; it does
\* not return completed while a task is pending; every step of execute
\* brings it nearer to its end, and it stops only by returning or raising.
C15_UnresolvedRaises ==
    /\ [](/\ (pc = "loop" /\ pending # <<>>
                /\ \A id \in SeqToSet(pending) :
                      ~(TaskOf(id).depends_on \subseteq completed)) =>
                /\ ENABLED RaiseUnresolved
                /\ ~ENABLED SchedulePass
                /\ ~ENABLED ReturnCompleted
          /\ pc = "raised" =>
                /\ outcome = <<>>
                /\ pending # <<>>
                /\ \A id \in SeqToSet(pending) :
                      ~(TaskOf(id).depends_on \subseteq completed)
          /\ (pc = "returned" /\ outcome[1].status = "completed") =>
                pending = <<>>
          /\ pc \notin {"returned", "raised"} => ENABLED Next
          /\ WorkLeft >= 0)
    /\ [][WorkLeft' < WorkLeft]_vars

\* execute has raised after processing a task: the task left pending names a
\* dependency that is not in the plan
C15_Witness ==
    /\ pc = "raised"
    /\ records # <<>>
    /\ \E id \in SeqToSet(pending) :
          \E d \in TaskOf(id).depends_on : d \notin PlanTaskIds


-----------------------------------------------------------------------------
(* The plans of the planner *)

\* the plan of the planner is in place
Planned == tripspec # <<>> /\ pc # "plan"

\* positions in plan of the tasks with a given task_id
PositionsOf(id) == {k \in 1..Len(plan) : plan[k].task_id = id}

\* positions in plan of the tasks of an agent kind
TasksOfKind(agent) == {k \in 1..Len(plan) : plan[k].agent = agent}

\* the task_ids a set of task_ids depends on, directly or through n further tasks
RECURSIVE DependsClosure(_, _)
DependsClosure(S, n) ==
    LET direct == UNION {plan[k].depends_on : k \in {j \in 1..Len(plan) : plan[j].task_id \in S}}
    IN IF n = 0 THEN direct ELSE direct \cup DependsClosure(direct, n - 1)

\* C16: a plan generated from a TripSpec, run with handlers for all five
\* kinds that always return a valid result, never raises; execute goes on
\* until it returns, each step bringing it nearer to its end; it returns
\* completed with a result for every task of the plan, each invoked once,
\* and synth_trip is the last task invoked.
C16_GeneratedPlanCompletes ==
    /\ [](tripspec # <<>> =>
            /\ pc # "raised"
            /\ pc # "returned" => ENABLED Next
            /\ \A k \in 1..Len(calls) :
                  calls[k].task_id = <<115, 121, 110, 116, 104, 95, 116, 114, 105, 112>>
                     => k = Len(calls)
            /\ pc = "returned" =>
                  /\ outcome[1].status = "completed"
                  /\ DOMAIN outcome[1].results = PlanTaskIds
                  /\ Len(plan) >= 3
                  /\ Len(calls) = Len(plan)
                  /\ calls[Len(calls)].task_id = plan[Len(plan)].task_id
                  /\ calls[Len(calls)].task_id =
                        <<115, 121, 110, 116, 104, 95, 116, 114, 105, 112>>)
    /\ [][tripspec # <<>> => WorkLeft' < WorkLeft]_vars

\* the plan of a trip of two or more legs, one of them unresolved, has been
\* run to its end
C16_Witness ==
    /\ Len(tripspec) >= 2
    /\ \E i \in 1..Len(tripspec) : tripspec[i].geo = <<>>
    /\ \E i \in 1..Len(tripspec) : tripspec[i].geo # <<>>
    /\ pc = "returned"
    /\ Len(calls) = Len(plan)

\* C17: the generated plan has exactly one synth task; it is the last task
\* and its task_id is synth_trip; no task depends on it; it depends,
\* directly or through other tasks, on every weather, poi and transport task.
C17_OneSynthOverAll ==
    Planned =>
       /\ TasksOfKind("synth") = {Len(plan)}
       /\ plan[Len(plan)].task_id = SynthTripId
       /\ \A k \in 1..Len(plan) : SynthTripId \notin plan[k].depends_on
       /\ \A k \in TasksOfKind("weather") \cup TasksOfKind("poi") \cup TasksOfKind("transport") :
             plan[k].task_id \in DependsClosure({SynthTripId}, Len(plan))
       /\ TasksOfKind("weather") # {} /\ TasksOfKind("poi") # {}

\* a plan with transport tasks and a geo task has been generated
C17_Witness ==
    /\ Planned
    /\ Cardinality(TasksOfKind("transport")) >= 2
    /\ TasksOfKind("geo") # {}
    /\ pc = "loop"
    /\ records = <<>>

\* C18: in the generated plan the task_ids are pairwise distinct and every
\* task_id in a depends_on is the task_id of a task earlier in plan.tasks.
C18_WellFormedPlan ==
    Planned =>
       /\ \A j, k \in 1..Len(plan) : plan[j].task_id = plan[k].task_id => j = k
       /\ \A k \in 1..Len(plan) : \A d \in plan[k].depends_on :
             \E j \in 1..(k - 1) : plan[j].task_id = d

\* a plan for MaxLegs legs, resolved and unresolved, has been generated and
\* some task depends on two or more others
C18_Witness ==
    /\ Planned
    /\ Len(tripspec) = MaxLegs
    /\ \E i \in 1..Len(tripspec) : tripspec[i].geo = <<>>
    /\ \E i \in 1..Len(tripspec) : tripspec[i].geo # <<>>
    /\ \E k \in 1..(Len(plan) - 1) : Cardinality(plan[k].depends_on) >= 2

\* C19: for each leg i the plan has a geo task iff the leg has no resolved
\* geo point: it is geo_leg_i and depends on nothing; the plan has one
\* weather_leg_i and one poi_leg_i, which depend on exactly geo_leg_i when
\* that task was emitted and on nothing otherwise; the two carry the same
\* parallel_group, which no other task carries.
C19_LegTasks ==
    Planned =>
       /\ \A i \in 0..(Len(tripspec) - 1) :
             LET geo == GeoId(i)
                 unresolved == tripspec[i + 1].geo = <<>>
                 expected == IF unresolved THEN {geo} ELSE {}
             IN
             /\ PositionsOf(geo) # {} <=> unresolved
             /\ Cardinality(PositionsOf(geo)) <= 1
             /\ \A k \in PositionsOf(geo) :
                   plan[k].agent = "geo" /\ plan[k].depends_on = {}
             /\ Cardinality(PositionsOf(WeatherId(i))) = 1
             /\ Cardinality(PositionsOf(PoiId(i))) = 1
             /\ \A w \in PositionsOf(WeatherId(i)) : \A p \in PositionsOf(PoiId(i)) :
                   /\ plan[w].agent = "weather" /\ plan[p].agent = "poi"
                   /\ plan[w].depends_on = expected
                   /\ plan[p].depends_on = expected
                   /\ plan[w].parallel_group # <<>>
                   /\ plan[w].parallel_group = plan[p].parallel_group
                   /\ \A k \in 1..Len(plan) :
                         plan[k].parallel_group = plan[w].parallel_group => k \in {w, p}
       /\ Cardinality(TasksOfKind("geo")) =
             Cardinality({i \in 1..Len(tripspec) : tripspec[i].geo = <<>>})
       /\ Cardinality(TasksOfKind("weather")) = Len(tripspec)
       /\ Cardinality(TasksOfKind("poi")) = Len(tripspec)

\* a plan for a trip with a resolved leg followed by an unresolved leg has
\* been generated
C19_Witness ==
    /\ Planned
    /\ Len(tripspec) >= 2
    /\ tripspec[1].geo # <<>>
    /\ tripspec[2].geo = <<>>
    /\ completed = {}

\* C20: for each leg i > 0 the plan has exactly one transport task
\* transport_leg_{i-1}_{i}; it depends on exactly weather_leg_{i-1},
\* poi_leg_{i-1} and, iff leg i has a geo task, geo_leg_i; no other task
\* carries its parallel_group; the plan has no other transport task, so a
\* single-leg plan has none; synth_trip depends on every transport task.
C20_TransportTasks ==
    Planned =>
       /\ \A i \in 1..(Len(tripspec) - 1) :
             LET id == TransportId(i)
                 before == {WeatherId(i - 1), PoiId(i - 1)}
             IN
             /\ Cardinality(PositionsOf(id)) = 1
             /\ \A t \in PositionsOf(id) :
                   /\ plan[t].agent = "transport"
                   /\ plan[t].depends_on =
                         before \cup (IF TasksOfKind("geo") \cap PositionsOf(GeoId(i)) # {}
                                      THEN {GeoId(i)} ELSE {})
                   /\ (GeoId(i) \in plan[t].depends_on) <=> tripspec[i + 1].geo = <<>>
                   /\ plan[t].parallel_group # <<>>
                   /\ \A k \in 1..Len(plan) :
                         plan[k].parallel_group = plan[t].parallel_group => k = t
       /\ Cardinality(TasksOfKind("transport")) = Len(tripspec) - 1
       /\ Len(tripspec) = 1 => TasksOfKind("transport") = {}
       /\ \A t \in TasksOfKind("transport") :
             plan[t].task_id \in plan[Len(plan)].depends_on

\* a plan for three legs, the second unresolved and the third resolved, has
\* been generated
C20_Witness ==
    /\ Planned
    /\ Len(tripspec) = 3
    /\ tripspec[2].geo = <<>>
    /\ tripspec[3].geo # <<>>
    /\ Cardinality(TasksOfKind("transport")) = 2


-----------------------------------------------------------------------------
(* cache.py: MemoryCache *)

\* no executor takes part in the runs of a cache or of a rate limiter alone
NoExecutor ==
    /\ tripspec = <<>>
    /\ plan = <<>>
    /\ handlers = {}
    /\ critical_arg = <<>>
    /\ critical_agents = {}
    /\ max_retries = 0
    /\ confidence_threshold = 0
    /\ pc = "none"
    /\ pending = <<>>
    /\ completed = {}
    /\ results = <<>>
    /\ records = <<>>
    /\ stages = <<>>
    /\ grouped = <<>>
    /\ gi = 0
    /\ ti = 0
    /\ stage_task_ids = <<>>
    /\ attempt = 0
    /\ last_issues = <<>>
    /\ calls = <<>>
    /\ outcome = <<>>

CacheKeys == {"a", "b", "c"}

CacheValues == {"A", "B"}

Ttls == {-1, 0, 1, 2}

\* what a call returns when it returns nothing, and get's default
None == "None"

\* _CacheItem, with the key it is stored under
CacheItem(key, value, expires_at) ==
    [key |-> key, value |-> value, expires_at |-> expires_at]

\* a call on the cache, what it returned, and self._items as the call found it
CacheCall(name, key, value, ttl, result, before) ==
    [name |-> name, key |-> key, value |-> value, ttl |-> ttl, result |-> result,
     before |-> before]

\* key in self._items
HasKey(its, key) == \E i \in 1..Len(its) : its[i].key = key

\* self._items[key]
ItemOf(its, key) == its[CHOOSE i \in 1..Len(its) : its[i].key = key]

\* self._items.pop(key, None)
Pop(its, key) == SelectSeq(its, LAMBDA it : it.key # key)

\* faulty variant: a read does not refresh the entry
MoveToEndNot(its, key) == its

\* self._items.move_to_end(key)
MoveToEnd(its, key) ==
    IF HasKey(its, key) THEN Append(Pop(its, key), ItemOf(its, key)) ELSE its

\* faulty variant: an entry lives through the instant of its expiry
ExpiredAfter(item, now) == item.expires_at < now

\* item.expires_at <= self._clock()
Expired(item, now) == item.expires_at <= now

\* faulty variant: the entry expires at once
ExpiresAtNow(now, ttl_seconds) == now

\* expires_at = self._clock() + ttl_seconds
ExpiresAt(now, ttl_seconds) == now + ttl_seconds

\* faulty variant: an entry that has expired is evicted before the oldest one
RECURSIVE EvictIfNeededExpiredFirst(_, _)
EvictIfNeededExpiredFirst(its, size) ==
    IF Len(its) <= size THEN its
    ELSE LET stale == {i \in 1..Len(its) : its[i].expires_at <= cache_clock} IN
         IF stale = {} THEN EvictIfNeededExpiredFirst(Tail(its), size)
         ELSE LET i == CHOOSE k \in stale : \A l \in stale : k <= l IN
              EvictIfNeededExpiredFirst(SubSeq(its, 1, i - 1) \o SubSeq(its, i + 1, Len(its)),
                                        size)

\* _evict_if_needed: popitem(last=False) while len(self._items) > self.max_size
RECURSIVE EvictIfNeeded(_, _)
EvictIfNeeded(its, size) ==
    IF Len(its) > size THEN EvictIfNeeded(Tail(its), size) ELSE its

\* faulty variant: a read purges every expired entry
GetItemsPurging(its, key, now) ==
    IF ~HasKey(its, key) THEN its
    ELSE IF Expired(ItemOf(its, key), now)
         THEN SelectSeq(its, LAMBDA it : ~Expired(it, now))
         ELSE MoveToEnd(its, key)

\* self._items after get(key)
GetItems(its, key, now) ==
    IF ~HasKey(its, key) THEN its
    ELSE IF Expired(ItemOf(its, key), now) THEN Pop(its, key)
         ELSE MoveToEnd(its, key)

\* what get(key) returns
GetResult(its, key, now) ==
    IF ~HasKey(its, key) THEN None
    ELSE IF Expired(ItemOf(its, key), now) THEN None
         ELSE ItemOf(its, key).value

\* self._items after set(key, value, ttl_seconds)
SetItems(its, key, value, ttl_seconds, now, size) ==
    IF ttl_seconds <= 0 THEN Pop(its, key)
    ELSE EvictIfNeeded(
            MoveToEnd(Append(Pop(its, key),
                             CacheItem(key, value, ExpiresAt(now, ttl_seconds))),
                      key),
            size)

\* faulty variant: cleanup stops at the first entry that has not expired
ExpiredKeysLeading(its, now) ==
    IF its # <<>> /\ Expired(its[1], now) THEN <<its[1].key>> ELSE <<>>

\* expired_keys of cleanup_expired
ExpiredKeys(its, now) ==
    LET expired == SelectSeq(its, LAMBDA it : Expired(it, now))
    IN [i \in 1..Len(expired) |-> expired[i].key]

\* self._items after the loop of cleanup_expired
RECURSIVE PopAll(_, _)
PopAll(its, keys) ==
    IF keys = <<>> THEN its ELSE PopAll(Pop(its, Head(keys)), Tail(keys))

\* MemoryCache(max_size=size, clock=clock) with the clock at 0
CacheStart(size) ==
    /\ max_size = size
    /\ items = <<>>
    /\ cache_clock = 0
    /\ cache_op = CacheCall("new", None, size, 0, None, <<>>)

\* no rate limiter takes part in the runs of a cache alone
NoLimiter ==
    /\ limiter_pc = "none"
    /\ rate_per_second = <<0, 1>>
    /\ capacity = <<0, 1>>
    /\ tokens = <<0, 1>>
    /\ last_refill = <<0, 1>>
    /\ limiter_clock = <<0, 1>>
    /\ limiter_op = <<>>

\* no tool and no retry wrapper take part in the runs of a cache or of a
\* rate limiter alone
NoPipeline ==
    /\ tool = <<>>
    /\ client_calls = 0
    /\ tool_op = <<>>
    /\ retry = <<>>
    /\ earlier = <<>>

\* the cache and the rate limiter have one caller at a time
NoCallers ==
    /\ threads = <<>>
    /\ granted = <<0, 1>>
    /\ since = <<0, 1>>

\* faulty variant: a cache of size 0 is accepted
ValidMaxSizeZero(size) == size >= 0

\* __init__: if max_size <= 0: raise ValueError
ValidMaxSize(size) == ~(size <= 0)

CacheInit ==
    /\ NoExecutor
    /\ NoPipeline
    /\ NoLimiter
    /\ NoCallers
    /\ \E size \in 1..MaxCacheSize : CacheStart(size)

\* cache = MemoryCache(max_size=size, clock=clock): a new cache takes the
\* place of the one in use, unless the constructor raises
CacheNew ==
    \E size \in (-1)..MaxCacheSize :
       /\ IF ValidMaxSize(size)
          THEN /\ max_size' = size
               /\ items' = <<>>
               /\ cache_op' = CacheCall("new", None, size, 0, None, items)
          ELSE /\ cache_op' = CacheCall("new", None, size, 0, "ValueError", items)
               /\ UNCHANGED <<max_size, items>>
       /\ UNCHANGED <<executor, pipeline, limiter, callers, cache_clock>>

\* cache.get(key)
CacheGet ==
    \E key \in CacheKeys :
       /\ items' = GetItems(items, key, cache_clock)
       /\ cache_op' = CacheCall("get", key, None, 0, GetResult(items, key, cache_clock), items)
       /\ UNCHANGED <<executor, pipeline, limiter, callers, max_size, cache_clock>>

\* cache.set(key, value, ttl_seconds)
CacheSet ==
    \E key \in CacheKeys : \E value \in CacheValues : \E ttl_seconds \in Ttls :
       /\ items' = SetItems(items, key, value, ttl_seconds, cache_clock, max_size)
       /\ cache_op' = CacheCall("set", key, value, ttl_seconds, None, items)
       /\ UNCHANGED <<executor, pipeline, limiter, callers, max_size, cache_clock>>

\* cache.delete(key)
CacheDelete ==
    \E key \in CacheKeys :
       /\ items' = Pop(items, key)
       /\ cache_op' = CacheCall("delete", key, None, 0, None, items)
       /\ UNCHANGED <<executor, pipeline, limiter, callers, max_size, cache_clock>>

\* cache.cleanup_expired()
CacheCleanupExpired ==
    LET expired_keys == ExpiredKeys(items, cache_clock) IN
    /\ items' = PopAll(items, expired_keys)
    /\ cache_op' = CacheCall("cleanup_expired", None, None, 0, Len(expired_keys), items)
    /\ UNCHANGED <<executor, pipeline, limiter, callers, max_size, cache_clock>>

\* the clock of the cache moves on
CacheAdvance ==
    /\ cache_clock < MaxClock
    /\ cache_clock' = cache_clock + 1
    /\ cache_op' = CacheCall("advance", None, None, 0, None, items)
    /\ UNCHANGED <<executor, pipeline, limiter, callers, max_size, items>>

CacheNext ==
    \/ CacheNew
    \/ CacheGet
    \/ CacheSet
    \/ CacheDelete
    \/ CacheCleanupExpired
    \/ CacheAdvance

CacheSpec == CacheInit /\ [][CacheNext]_vars


-----------------------------------------------------------------------------
(* cache.py: RateLimiter *)

Abs(n) == IF n < 0 THEN -n ELSE n

RECURSIVE GCD(_, _)
GCD(a, b) == IF b = 0 THEN a ELSE GCD(b, a % b)

\* the fraction n/d, d > 0, in lowest terms
Rat(n, d) == LET g == GCD(Abs(n), d) IN <<n \div g, d \div g>>

Zero == <<0, 1>>

RatAdd(a, b) == Rat(a[1] * b[2] + b[1] * a[2], a[2] * b[2])

RatSub(a, b) == Rat(a[1] * b[2] - b[1] * a[2], a[2] * b[2])

RatMul(a, b) == Rat(a[1] * b[1], a[2] * b[2])

\* a / b for b > 0
RatDiv(a, b) == Rat(a[1] * b[2], a[2] * b[1])

RatLeq(a, b) == a[1] * b[2] <= b[1] * a[2]

RatLess(a, b) == a[1] * b[2] < b[1] * a[2]

RatMin(a, b) == IF RatLeq(a, b) THEN a ELSE b

RatMax(a, b) == IF RatLeq(a, b) THEN b ELSE a

\* the arguments of the calls
Rates == {<<-1, 1>>, <<0, 1>>, <<1, 2>>, <<1, 1>>, <<2, 1>>}

Capacities == {<<-1, 1>>, <<0, 1>>, <<1, 1>>, <<2, 1>>}

Costs == {<<-1, 1>>, <<0, 1>>, <<1, 2>>, <<1, 1>>, <<2, 1>>, <<3, 1>>}

Advances == {<<1, 2>>, <<1, 1>>}

\* a call on the rate limiter (or an advance of its clock), what it
\* returned, and the tokens, last refill and previous call it found
LimiterCall(name, cost, raised, allowed, wait, refused) ==
    [name |-> name, cost |-> cost, raised |-> raised, allowed |-> allowed,
     wait |-> wait, refused |-> refused,
     tokens_before |-> tokens, last_refill_before |-> last_refill]

\* the checks of __init__
ValidArguments(rate, cap) == ~RatLeq(rate, Zero) /\ ~RatLeq(cap, Zero)

\* faulty variant: a cost of zero is accepted
ValidCostZero(cost) == RatLeq(Zero, cost)

\* allow, wait_time: tokens <= 0 raises ValueError
ValidCost(cost) == ~RatLeq(cost, Zero)

\* faulty variant: the refill is not capped
RefillUncapped(now) ==
    RatAdd(tokens, RatMul(RatMax(Zero, RatSub(now, last_refill)), rate_per_second))

\* self._tokens after _refill
Refill(now) ==
    RatMin(capacity,
           RatAdd(tokens, RatMul(RatMax(Zero, RatSub(now, last_refill)), rate_per_second)))

\* faulty variant: the wait for a full bucket
WaitTimeToFull(refilled, cost) ==
    IF RatLeq(cost, refilled) THEN Zero
    ELSE RatDiv(RatSub(capacity, refilled), rate_per_second)

\* what wait_time returns once the bucket is refilled
WaitTime(refilled, cost) ==
    IF RatLeq(cost, refilled) THEN Zero
    ELSE RatDiv(RatSub(cost, refilled), rate_per_second)

\* faulty variant: allow lends the tokens the bucket does not hold yet
HasTokensOnCredit(refilled, cost) == RatLeq(cost, RatAdd(refilled, capacity))

\* allow: if self._tokens >= tokens
HasTokens(refilled, cost) == RatLeq(cost, refilled)

\* before RateLimiter(rate_per_second=rate, capacity=cap, clock=clock), the clock at 0
LimiterStart(rate, cap) ==
    /\ limiter_pc = "new"
    /\ rate_per_second = rate
    /\ capacity = cap
    /\ tokens = Zero
    /\ last_refill = Zero
    /\ limiter_clock = Zero
    /\ limiter_op = [name |-> "none", cost |-> Zero, raised |-> FALSE,
                     allowed |-> FALSE, wait |-> Zero, refused |-> FALSE,
                     tokens_before |-> Zero, last_refill_before |-> Zero]

LimiterInit ==
    /\ NoExecutor
    /\ NoPipeline
    /\ NoCallers
    /\ max_size = 0
    /\ items = <<>>
    /\ cache_clock = 0
    /\ cache_op = <<>>
    /\ \E rate \in Rates : \E cap \in Capacities : LimiterStart(rate, cap)

\* RateLimiter.__init__
LimiterNew ==
    /\ limiter_pc = "new"
    /\ IF ValidArguments(rate_per_second, capacity)
       THEN /\ limiter_pc' = "ready"
            /\ tokens' = capacity
            /\ last_refill' = limiter_clock
            /\ limiter_op' = LimiterCall("new", Zero, FALSE, FALSE, Zero, FALSE)
       ELSE /\ limiter_pc' = "failed"
            /\ limiter_op' = LimiterCall("new", Zero, TRUE, FALSE, Zero, FALSE)
            /\ UNCHANGED <<tokens, last_refill>>
    /\ UNCHANGED <<executor, pipeline, cache, callers, rate_per_second, capacity, limiter_clock>>

\* limiter.allow(cost)
LimiterAllow ==
    \E cost \in Costs :
       /\ limiter_pc = "ready"
       /\ IF ~ValidCost(cost)
          THEN /\ limiter_op' = LimiterCall("allow", cost, TRUE, FALSE, Zero, FALSE)
               /\ UNCHANGED <<tokens, last_refill, granted>>
          ELSE LET refilled == Refill(limiter_clock) IN
               /\ last_refill' = limiter_clock
               /\ IF HasTokens(refilled, cost)
                  THEN /\ tokens' = RatSub(refilled, cost)
                       /\ granted' = RatAdd(granted, cost)
                       /\ limiter_op' = LimiterCall("allow", cost, FALSE, TRUE, Zero, FALSE)
                  ELSE /\ tokens' = refilled
                       /\ limiter_op' = LimiterCall("allow", cost, FALSE, FALSE, Zero, FALSE)
                       /\ UNCHANGED granted
       /\ UNCHANGED <<executor, pipeline, cache, threads, since, limiter_pc, rate_per_second,
                      capacity, limiter_clock>>

\* limiter.wait_time(cost); refused tells that it follows a refused allow(cost)
LimiterWaitTime ==
    \E cost \in Costs :
       /\ limiter_pc = "ready"
       /\ IF ~ValidCost(cost)
          THEN /\ limiter_op' = LimiterCall("wait_time", cost, TRUE, FALSE, Zero, FALSE)
               /\ UNCHANGED <<tokens, last_refill>>
          ELSE LET refilled == Refill(limiter_clock) IN
               /\ last_refill' = limiter_clock
               /\ tokens' = refilled
               /\ limiter_op' =
                     LimiterCall("wait_time", cost, FALSE, FALSE, WaitTime(refilled, cost),
                                 /\ limiter_op.name = "allow"
                                 /\ limiter_op.cost = cost
                                 /\ ~limiter_op.raised
                                 /\ ~limiter_op.allowed)
       /\ UNCHANGED <<executor, pipeline, cache, callers, limiter_pc, rate_per_second, capacity,
                      limiter_clock>>

\* the clock of the rate limiter moves on by a fixed amount
LimiterAdvance ==
    \E seconds \in Advances :
       /\ limiter_pc = "ready"
       /\ RatLeq(RatAdd(limiter_clock, seconds), <<MaxTime, 1>>)
       /\ limiter_clock' = RatAdd(limiter_clock, seconds)
       /\ limiter_op' = LimiterCall("advance", Zero, FALSE, FALSE, seconds, FALSE)
       /\ UNCHANGED <<executor, pipeline, cache, callers, limiter_pc, rate_per_second, capacity,
                      tokens, last_refill>>

\* the caller sleeps for what wait_time has just returned
LimiterSleep ==
    /\ limiter_pc = "ready"
    /\ limiter_op.name = "wait_time"
    /\ ~limiter_op.raised
    /\ RatLess(Zero, limiter_op.wait)
    /\ RatLeq(RatAdd(limiter_clock, limiter_op.wait), <<MaxTime, 1>>)
    /\ limiter_clock' = RatAdd(limiter_clock, limiter_op.wait)
    /\ limiter_op' = LimiterCall("sleep", limiter_op.cost, FALSE, FALSE, limiter_op.wait,
                                 limiter_op.refused)
    /\ UNCHANGED <<executor, pipeline, cache, callers, limiter_pc, rate_per_second, capacity,
                   tokens, last_refill>>

\* the caller starts to count what it is granted from now on
LimiterObserve ==
    /\ limiter_pc = "ready"
    /\ granted # Zero \/ since # limiter_clock
    /\ granted' = Zero
    /\ since' = limiter_clock
    /\ UNCHANGED <<executor, pipeline, cache, limiter, threads>>

LimiterNext ==
    \/ LimiterNew
    \/ LimiterObserve
    \/ LimiterAllow
    \/ LimiterWaitTime
    \/ LimiterAdvance
    \/ LimiterSleep

LimiterSpec == LimiterInit /\ [][LimiterNext]_vars

-----------------------------------------------------------------------------
(* cache.py called by two handler invocations at once.  The classes take no
   lock, so the statements of one call run between those of the other; each
   action is one statement, or one read or write of a field inside it. *)

Threads == {1, 2}

\* a caller that has not called yet
Idle ==
    [pc |-> "idle", cost |-> Zero, key |-> None, value |-> None, expires_at |-> 0,
     now |-> Zero, elapsed |-> Zero, loaded |-> Zero, result |-> "none"]

\* a RateLimiter of rate 1 with a full bucket and a MemoryCache with one
\* entry, both with their clock at 0, and two callers
ConcurrentInit ==
    /\ NoExecutor
    /\ NoPipeline
    /\ \E size \in 1..MaxCacheSize :
          /\ max_size = size
          /\ items = << CacheItem("c", "A", 1) >>
          /\ cache_clock = 0
          /\ cache_op = CacheCall("new", None, size, 0, None, <<>>)
    /\ \E cap \in {<<1, 1>>, <<2, 1>>} :
          /\ limiter_pc = "ready"
          /\ rate_per_second = <<1, 1>>
          /\ capacity = cap
          /\ tokens = cap
          /\ last_refill = Zero
          /\ limiter_clock = Zero
          /\ limiter_op = [name |-> "new", cost |-> Zero, raised |-> FALSE,
                           allowed |-> FALSE, wait |-> Zero, refused |-> FALSE,
                           tokens_before |-> Zero, last_refill_before |-> Zero]
    /\ threads = [t \in Threads |-> Idle]
    /\ granted = Zero
    /\ since = Zero

\* what a step of a caller leaves alone besides the fields it names
ConcurrentFrame ==
    UNCHANGED <<executor, pipeline, since, max_size, cache_clock, cache_op, limiter_pc,
                rate_per_second, capacity, limiter_clock, limiter_op>>

\* allow(cost): the argument check passes and _refill is entered
CallAllow ==
    \E t \in Threads : \E cost \in {<<1, 1>>, <<2, 1>>} :
       /\ threads[t].pc = "idle"
       /\ ValidCost(cost)
       /\ threads' = [threads EXCEPT ![t].pc = "refill_read", ![t].cost = cost]
       /\ ConcurrentFrame
       /\ UNCHANGED <<items, tokens, last_refill, granted>>

\* _refill: now = self._clock(); elapsed = max(0.0, now - self._last_refill)
RefillRead ==
    \E t \in Threads :
       /\ threads[t].pc = "refill_read"
       /\ threads' = [threads EXCEPT
                         ![t].pc = "refill_stamp",
                         ![t].now = limiter_clock,
                         ![t].elapsed = RatMax(Zero, RatSub(limiter_clock, last_refill))]
       /\ ConcurrentFrame
       /\ UNCHANGED <<items, tokens, last_refill, granted>>

\* _refill: self._last_refill = now
RefillStamp ==
    \E t \in Threads :
       /\ threads[t].pc = "refill_stamp"
       /\ last_refill' = threads[t].now
       /\ threads' = [threads EXCEPT ![t].pc = "refill_store"]
       /\ ConcurrentFrame
       /\ UNCHANGED <<items, tokens, granted>>

\* _refill: self._tokens = min(self.capacity, self._tokens + elapsed * rate)
RefillStore ==
    \E t \in Threads :
       /\ threads[t].pc = "refill_store"
       /\ tokens' = RatMin(capacity,
                           RatAdd(tokens, RatMul(threads[t].elapsed, rate_per_second)))
       /\ threads' = [threads EXCEPT ![t].pc = "check"]
       /\ ConcurrentFrame
       /\ UNCHANGED <<items, last_refill, granted>>

\* allow: if self._tokens >= tokens ... return False
AllowCheck ==
    \E t \in Threads :
       /\ threads[t].pc = "check"
       /\ threads' = [threads EXCEPT
                         ![t].pc = IF RatLeq(threads[t].cost, tokens) THEN "load" ELSE "done",
                         ![t].result = IF RatLeq(threads[t].cost, tokens) THEN "none" ELSE "False"]
       /\ ConcurrentFrame
       /\ UNCHANGED <<items, tokens, last_refill, granted>>

\* allow: self._tokens -= tokens, the read of self._tokens
AllowLoad ==
    \E t \in Threads :
       /\ threads[t].pc = "load"
       /\ threads' = [threads EXCEPT ![t].pc = "store", ![t].loaded = tokens]
       /\ ConcurrentFrame
       /\ UNCHANGED <<items, tokens, last_refill, granted>>

\* allow: self._tokens -= tokens, the write of self._tokens; return True
AllowStore ==
    \E t \in Threads :
       /\ threads[t].pc = "store"
       /\ tokens' = RatSub(threads[t].loaded, threads[t].cost)
       /\ granted' = RatAdd(granted, threads[t].cost)
       /\ threads' = [threads EXCEPT ![t].pc = "done", ![t].result = "True"]
       /\ ConcurrentFrame
       /\ UNCHANGED <<items, last_refill>>

\* set(key, value, ttl_seconds) with ttl_seconds > 0: expires_at = self._clock() + ttl_seconds
CallSet ==
    \E t \in Threads : \E key \in {"a", "b"} :
       /\ threads[t].pc = "idle"
       /\ threads' = [threads EXCEPT
                         ![t].pc = "set_pop", ![t].key = key, ![t].value = "B",
                         ![t].expires_at = ExpiresAt(cache_clock, 1)]
       /\ ConcurrentFrame
       /\ UNCHANGED <<items, tokens, last_refill, granted>>

\* set: self._items.pop(key, None)
SetPop ==
    \E t \in Threads :
       /\ threads[t].pc = "set_pop"
       /\ items' = Pop(items, threads[t].key)
       /\ threads' = [threads EXCEPT ![t].pc = "set_insert"]
       /\ ConcurrentFrame
       /\ UNCHANGED <<tokens, last_refill, granted>>

\* set: self._items[key] = _CacheItem(value=value, expires_at=expires_at)
SetInsert ==
    \E t \in Threads :
       /\ threads[t].pc = "set_insert"
       /\ items' =
             LET item == CacheItem(threads[t].key, threads[t].value, threads[t].expires_at)
             IN IF HasKey(items, threads[t].key)
                THEN [i \in 1..Len(items) |->
                         IF items[i].key = threads[t].key THEN item ELSE items[i]]
                ELSE Append(items, item)
       /\ threads' = [threads EXCEPT ![t].pc = "set_move"]
       /\ ConcurrentFrame
       /\ UNCHANGED <<tokens, last_refill, granted>>

\* set: self._items.move_to_end(key); a KeyError when the key is gone
SetMoveToEnd ==
    \E t \in Threads :
       /\ threads[t].pc = "set_move"
       /\ IF HasKey(items, threads[t].key)
          THEN /\ items' = MoveToEnd(items, threads[t].key)
               /\ threads' = [threads EXCEPT ![t].pc = "evict_check"]
          ELSE /\ items' = items
               /\ threads' = [threads EXCEPT ![t].pc = "done", ![t].result = "KeyError"]
       /\ ConcurrentFrame
       /\ UNCHANGED <<tokens, last_refill, granted>>

\* _evict_if_needed: while len(self._items) > self.max_size; set returns when it is not
EvictCheck ==
    \E t \in Threads :
       /\ threads[t].pc = "evict_check"
       /\ threads' = [threads EXCEPT
                         ![t].pc = IF Len(items) > max_size THEN "evict_pop" ELSE "done",
                         ![t].result = IF Len(items) > max_size THEN "none" ELSE "None"]
       /\ ConcurrentFrame
       /\ UNCHANGED <<items, tokens, last_refill, granted>>

\* _evict_if_needed: self._items.popitem(last=False); a KeyError on an empty dict
EvictPop ==
    \E t \in Threads :
       /\ threads[t].pc = "evict_pop"
       /\ IF items # <<>>
          THEN /\ items' = Tail(items)
               /\ threads' = [threads EXCEPT ![t].pc = "evict_check"]
          ELSE /\ items' = items
               /\ threads' = [threads EXCEPT ![t].pc = "done", ![t].result = "KeyError"]
       /\ ConcurrentFrame
       /\ UNCHANGED <<tokens, last_refill, granted>>

\* the clock of the rate limiter moves on while the callers run
ConcurrentAdvance ==
    /\ RatLeq(RatAdd(limiter_clock, <<1, 1>>), <<MaxTime, 1>>)
    /\ limiter_clock' = RatAdd(limiter_clock, <<1, 1>>)
    /\ UNCHANGED <<executor, pipeline, cache, limiter_pc, rate_per_second, capacity, tokens,
                   last_refill, limiter_op, callers>>

ConcurrentNext ==
    \/ CallAllow
    \/ RefillRead
    \/ RefillStamp
    \/ RefillStore
    \/ AllowCheck
    \/ AllowLoad
    \/ AllowStore
    \/ CallSet
    \/ SetPop
    \/ SetInsert
    \/ SetMoveToEnd
    \/ EvictCheck
    \/ EvictPop
    \/ ConcurrentAdvance

ConcurrentSpec == ConcurrentInit /\ [][ConcurrentNext]_vars

-----------------------------------------------------------------------------
(* The cache *)

\* the keys of a sequence of entries, in its order
KeysOf(its) == [i \in 1..Len(its) |-> its[i].key]

\* the entries of a sequence stored under another key, in its order
Others(its, key) == SelectSeq(its, LAMBDA it : it.key # key)

\* positions of the entries of a sequence stored under key
EntriesFor(its, key) == {i \in 1..Len(its) : its[i].key = key}

\* C21: get(key) returns the stored value iff the call finds an entry for key
\* with expires_at > now; otherwise it returns not-found and no entry for key
\* is left, so an entry read at now = expires_at is a miss and is removed.  A
\* value that get returns belongs to an entry whose expiry lies ahead.
C21_GetNeverStale ==
    cache_op.name = "get" =>
       LET live == {i \in EntriesFor(cache_op.before, cache_op.key) :
                       cache_op.before[i].expires_at > cache_clock}
       IN
       /\ live # {} =>
             /\ cache_op.result # None
             /\ \A i \in live : cache_op.result = cache_op.before[i].value
       /\ live = {} =>
             /\ cache_op.result = None
             /\ EntriesFor(items, cache_op.key) = {}
       /\ cache_op.result # None =>
             \E i \in EntriesFor(items, cache_op.key) :
                /\ items[i].value = cache_op.result
                /\ items[i].expires_at > cache_clock

\* a get at the very instant of expiry missed and removed the entry
C21_Witness ==
    /\ cache_op.name = "get"
    /\ cache_op.result = None
    /\ \E i \in EntriesFor(cache_op.before, cache_op.key) :
          cache_op.before[i].expires_at = cache_clock
    /\ EntriesFor(items, cache_op.key) = {}

\* C22: a set with a positive ttl and a get that hits make their key the most
\* recently used and leave the order of the others as it was; a set that
\* makes the size exceed max_size evicts the least recently used entries, as
\* many as the excess, and never the key just set; the size never exceeds
\* max_size.
C22_LruEviction ==
    /\ Len(items) <= max_size
    /\ (cache_op.name = "get" /\ cache_op.result # None) =>
          /\ items # <<>>
          /\ items[Len(items)].key = cache_op.key
          /\ SubSeq(items, 1, Len(items) - 1) = Others(cache_op.before, cache_op.key)
    /\ (cache_op.name = "set" /\ cache_op.ttl > 0) =>
          LET others == Others(cache_op.before, cache_op.key)
              excess == IF Len(others) + 1 > max_size
                        THEN Len(others) + 1 - max_size ELSE 0
          IN
          /\ items # <<>>
          /\ items[Len(items)].key = cache_op.key
          /\ SubSeq(items, 1, Len(items) - 1) = SubSeq(others, excess + 1, Len(others))
          /\ Len(items) = Len(others) + 1 - excess
          /\ excess > 0 => Len(items) = max_size

\* a set of a new key into a full cache of two entries evicted the least
\* recently used one and kept the other
C22_Witness ==
    /\ max_size = 2
    /\ cache_op.name = "set"
    /\ Len(cache_op.before) = 2
    /\ EntriesFor(cache_op.before, cache_op.key) = {}
    /\ Len(items) = 2
    /\ items[1] = cache_op.before[2]
    /\ items[2].key = cache_op.key

\* C23: set(key, value, ttl) with ttl <= 0 removes the entry for key if there
\* is one and leaves every other entry; with ttl > 0 it leaves exactly one
\* entry for key, holding value and expiring at now + ttl, as the most
\* recently used one, so that entry has not expired at any clock value less
\* than ttl ahead.
C23_SetStoresOrRemoves ==
    cache_op.name = "set" =>
       /\ cache_op.ttl <= 0 =>
             items = SelectSeq(cache_op.before, LAMBDA it : it.key # cache_op.key)
       /\ cache_op.ttl > 0 =>
             /\ Cardinality(EntriesFor(items, cache_op.key)) = 1
             /\ items[Len(items)] =
                   [key |-> cache_op.key, value |-> cache_op.value,
                    expires_at |-> cache_clock + cache_op.ttl]
             /\ \A t \in cache_clock..(cache_clock + cache_op.ttl - 1) :
                   items[Len(items)].expires_at > t

\* a set with ttl <= 0 removed an entry and left another one
C23_Witness ==
    /\ cache_op.name = "set"
    /\ cache_op.ttl <= 0
    /\ EntriesFor(cache_op.before, cache_op.key) # {}
    /\ items # <<>>
    /\ Len(items) = Len(cache_op.before) - 1

\* C24: cleanup_expired removes exactly the entries with expires_at <= now
\* and returns how many it removed; the others keep value, expiry and order;
\* a call that follows a call at the same clock value returns 0.
C24_CleanupExact ==
    /\ [](cache_op.name = "cleanup_expired" =>
            /\ items = SelectSeq(cache_op.before,
                                 LAMBDA it : ~(it.expires_at <= cache_clock))
            /\ cache_op.result = Len(cache_op.before) - Len(items)
            /\ \A i \in 1..Len(items) : items[i].expires_at > cache_clock)
    /\ [][(cache_op.name = "cleanup_expired" /\ cache_op'.name = "cleanup_expired")
             => (cache_op'.result = 0 /\ items' = items)]_vars

\* cleanup removed an expired entry that came after an entry it kept
C24_Witness ==
    /\ cache_op.name = "cleanup_expired"
    /\ cache_op.result = 1
    /\ Len(cache_op.before) = 2
    /\ items = <<cache_op.before[1]>>

\* C25: a get changes the value and the expiry of no entry and removes no
\* entry but the one of its key, and that one only when it has expired; a
\* get and a delete for a key without entry leave the entries and their
\* order as they were, and so does the passing of time.
C25_GetFrame ==
    /\ cache_op.name = "get" =>
          /\ Others(items, cache_op.key) = Others(cache_op.before, cache_op.key)
          /\ \A i \in EntriesFor(items, cache_op.key) :
                \E j \in EntriesFor(cache_op.before, cache_op.key) :
                   items[i] = cache_op.before[j]
          /\ \A j \in EntriesFor(cache_op.before, cache_op.key) :
                EntriesFor(items, cache_op.key) = {}
                   => cache_op.before[j].expires_at <= cache_clock
          /\ EntriesFor(cache_op.before, cache_op.key) = {} =>
                items = cache_op.before
    /\ (cache_op.name = "delete" /\ EntriesFor(cache_op.before, cache_op.key) = {}) =>
          items = cache_op.before
    /\ cache_op.name = "advance" => items = cache_op.before

\* a get removed the expired entry of its key and left another expired entry
C25_Witness ==
    /\ cache_op.name = "get"
    /\ Len(items) = Len(cache_op.before) - 1
    /\ \E i \in 1..Len(items) :
          /\ items[i].expires_at <= cache_clock
          /\ items[i].key # cache_op.key


-----------------------------------------------------------------------------
(* The rate limiter *)

\* min(capacity, tokens + elapsed * rate) for the state the last call found
StatedRefill ==
    LET elapsed == RatMax(Zero, RatSub(limiter_clock, limiter_op.last_refill_before))
        filled == RatAdd(limiter_op.tokens_before, RatMul(elapsed, rate_per_second))
    IN IF RatLeq(capacity, filled) THEN capacity ELSE filled

\* C26: allow(cost) refills first: last_refill becomes now and the tokens
\* min(capacity, tokens + elapsed * rate); it returns true iff the refilled
\* tokens are at least cost, and then subtracts cost; when it returns false
\* the tokens stay at the refilled value.
C26_AllowRefillsThenConsumes ==
    (limiter_op.name = "allow" /\ ~limiter_op.raised) =>
       /\ last_refill = limiter_clock
       /\ limiter_op.allowed <=> RatLeq(limiter_op.cost, StatedRefill)
       /\ limiter_op.allowed => tokens = RatSub(StatedRefill, limiter_op.cost)
       /\ ~limiter_op.allowed => tokens = StatedRefill
       /\ RatLeq(Zero, tokens) /\ RatLeq(tokens, capacity)

\* an allow was refused after a refill that left fewer tokens than its cost:
\* the refilled tokens are all there
C26_Witness ==
    /\ limiter_op.name = "allow"
    /\ ~limiter_op.raised
    /\ ~limiter_op.allowed
    /\ RatLess(limiter_op.tokens_before, tokens)
    /\ RatLess(tokens, capacity)

\* C27: wait_time(cost) refills first and consumes nothing; it returns 0 iff
\* the refilled tokens are at least cost, which is when an allow(cost) at the
\* same clock value returns true; otherwise it returns (cost - tokens) / rate,
\* which is positive.
C27_WaitTimeValue ==
    /\ []((limiter_op.name = "wait_time" /\ ~limiter_op.raised) =>
            /\ last_refill = limiter_clock
            /\ tokens = StatedRefill
            /\ limiter_op.wait = Zero <=> RatLeq(limiter_op.cost, StatedRefill)
            /\ ~RatLeq(limiter_op.cost, StatedRefill) =>
                  /\ limiter_op.wait =
                        RatDiv(RatSub(limiter_op.cost, StatedRefill), rate_per_second)
                  /\ RatLess(Zero, limiter_op.wait))
    /\ [][(/\ limiter_op.name = "wait_time" /\ ~limiter_op.raised
           /\ limiter_op'.name = "allow" /\ limiter_op'.cost = limiter_op.cost)
             => (limiter_op'.allowed <=> limiter_op.wait = Zero)]_vars

\* wait_time returned a wait that is not a whole number of seconds, after a
\* refill that added tokens
C27_Witness ==
    /\ limiter_op.name = "wait_time"
    /\ ~limiter_op.raised
    /\ limiter_op.wait[2] > 1
    /\ RatLess(limiter_op.tokens_before, tokens)

\* C28: when allow(cost) has returned false, wait_time(cost) has returned w
\* and the clock has advanced by w with no call in between, allow(cost)
\* returns true.
C28_WaitSuffices ==
    [][(/\ limiter_op.name = "sleep"
        /\ limiter_op.refused
        /\ limiter_op'.name = "allow"
        /\ limiter_op'.cost = limiter_op.cost)
          => limiter_op'.allowed]_vars

\* C29: the constructor fails iff rate_per_second <= 0 or capacity <= 0;
\* allow(cost) and wait_time(cost) raise iff cost <= 0, and a call that
\* raises leaves tokens and last_refill as they were.
C29_InvalidArgumentsRejected ==
    /\ limiter_pc # "new" =>
          (limiter_pc = "failed" <=>
              (RatLeq(rate_per_second, Zero) \/ RatLeq(capacity, Zero)))
    /\ limiter_pc = "failed" => (limiter_op.name = "new" /\ limiter_op.raised)
    /\ limiter_op.name \in {"allow", "wait_time"} =>
          /\ limiter_pc = "ready"
          /\ limiter_op.raised <=> RatLeq(limiter_op.cost, Zero)
          /\ limiter_op.raised =>
                /\ tokens = limiter_op.tokens_before
                /\ last_refill = limiter_op.last_refill_before

\* allow or wait_time raised at a moment when a refill would have added
\* tokens and moved last_refill
C29_Witness ==
    /\ limiter_op.name \in {"allow", "wait_time"}
    /\ limiter_op.raised
    /\ RatLess(last_refill, limiter_clock)
    /\ RatLess(tokens, capacity)


-----------------------------------------------------------------------------
(* Two callers *)

\* the callers that are inside a call
Inside == {t \in DOMAIN threads : threads[t].pc \notin {"idle", "done"}}

\* C30: when two handler invocations call allow or set at once, each call
\* takes effect as if the other did not run between its steps: the tokens
\* never drop below 0; the costs granted never exceed the tokens that were
\* available (the full bucket and what the elapsed time has refilled); a set
\* that has returned leaves at most max_size entries.
C30_ExclusiveAccess ==
    /\ RatLeq(Zero, tokens)
    /\ RatLeq(granted, RatAdd(capacity, RatMul(limiter_clock, rate_per_second)))
    /\ \A t \in DOMAIN threads :
          (threads[t].pc = "done" /\ threads[t].key # None /\ Inside = {}) =>
             Len(items) <= max_size

-----------------------------------------------------------------------------
(* geo_tool.py: GeoTool.run and poi_tool.py: POITool.run, over a MemoryCache
   and a RateLimiter.  The two methods have the same steps; POITool builds
   the Overpass query, which can raise, between allow and the client call.
   A query is a string of character codes; the tags of POITool.run are the
   list of that one string.  locale and limit keep their defaults. *)

ToolKinds == {"geo", "poi"}

\* "R", " r", "M", "="
Queries == { <<82>>, <<32, 114>>, <<77>>, <<61>> }

\* what the provider answers at different times
Rows == {"rows1", "rows2"}

\* the client raises (HTTPError, URLError, unexpected response shape)
ClientError == "ClientError"

ClientOutcomes == Rows \cup {ClientError}

\* ttl_seconds of the tool
ToolTtls == {0, 1}

\* the rate limiter handed to the tool
ToolRates == { <<1, 2>>, <<1, 1>> }

ToolCapacities == { <<1, 2>>, <<1, 1>> }

\* allow() and wait_time() are called with their default tokens=1.0
DefaultCost == <<1, 1>>

\* str.lower() on one character
Lower(c) == IF c \in 65..90 THEN c + 32 ELSE c

\* cache.py normalize_text: " ".join(value.strip().lower().split())
RECURSIVE DropSpaces(_)
DropSpaces(s) ==
    IF s = <<>> THEN <<>>
    ELSE IF Head(s) = 32 THEN DropSpaces(Tail(s)) ELSE s

RECURSIVE NormalizeText(_)
NormalizeText(value) ==
    LET s == DropSpaces(value) IN
    IF s = <<>> THEN <<>>
    ELSE IF Len(s) > 1 /\ s[2] = 32
         THEN LET rest == NormalizeText(Tail(s)) IN
              << Lower(Head(s)) >> \o (IF rest = <<>> THEN <<>> ELSE <<32>> \o rest)
         ELSE << Lower(Head(s)) >> \o NormalizeText(Tail(s))

\* make_cache_key("geocode", query, locale, limit) and
\* make_cache_key("poi", bbox_token, normalized_tags, capped_limit, locale):
\* the prefix and the normalized query; the hash of the tag list stands for
\* the list
MakeCacheKey(kind, query) ==
    << IF kind = "geo" THEN "geocode" ELSE "poi", NormalizeText(query) >>

\* poi_tool.py _build_overpass_query: a tag whose key or value is empty is
\* skipped, and no selector at all raises POIToolError
HasSelector(kind, query) ==
    LET tag == NormalizeText(query) IN
    kind = "poi" => (tag # <<>> /\ tag # <<61>>)

\* _normalize: the StandardAgentResult of the rows, without its evidence,
\* confidence and warnings; GeoTool puts the query as given into data,
\* POITool the normalized tags
Normalized(kind, query, rows, key) ==
    [cache_key |-> key,
     data |-> [query |-> IF kind = "geo" THEN query ELSE NormalizeText(query),
               rows |-> rows]]

\* faulty variant: the cache is not consulted
IsCachedNever(its, key, now) == FALSE

\* cached = self._cache.get(cache_key); if cached is not None: what the tool
\* stores is a dict, so get returns None exactly when it finds no entry or
\* an expired one
IsCached(its, key, now) == HasKey(its, key) /\ ~Expired(ItemOf(its, key), now)

\* faulty variant: the client is called whatever allow returned
AllowedAlways(refilled) == TRUE

\* what self._rate_limiter.allow() returns once the bucket is refilled
Allowed(refilled) == RatLeq(DefaultCost, refilled)

\* what is kept of a run when the next one is made
Summary(op) ==
    [name |-> op.name, cache_key |-> op.cache_key, hit |-> op.hit,
     raised |-> op.raised, result |-> op.result, cache_at |-> op.cache_at,
     limiter_at |-> op.limiter_at, client_calls |-> op.client_calls,
     calls_before |-> op.calls_before]

\* a tool.run: its argument, whether the cache had the entry, whether
\* allow was called and what it returned, what was raised, what was
\* returned (<<>> when it raised), the clocks, the client calls so far, and
\* what it found
ToolCall(query, key, hit, asked, allowed, raised, result, count) ==
    [name |-> "run", query |-> query, cache_key |-> key, hit |-> hit,
     asked |-> asked, allowed |-> allowed, raised |-> raised, result |-> result,
     cache_at |-> cache_clock, limiter_at |-> limiter_clock,
     client_calls |-> count,
     tokens_before |-> tokens, last_refill_before |-> last_refill,
     items_before |-> items, calls_before |-> client_calls,
     prev |-> Summary(tool_op)]

NoToolCall ==
    [name |-> "none", query |-> <<>>, cache_key |-> <<>>, hit |-> FALSE,
     asked |-> FALSE, allowed |-> FALSE, raised |-> "none", result |-> <<>>,
     cache_at |-> 0, limiter_at |-> Zero, client_calls |-> 0,
     tokens_before |-> Zero, last_refill_before |-> Zero,
     items_before |-> <<>>, calls_before |-> 0,
     prev |-> [name |-> "none", cache_key |-> <<>>, hit |-> FALSE,
               raised |-> "none", result |-> <<>>,
               cache_at |-> 0, limiter_at |-> Zero, client_calls |-> 0,
               calls_before |-> 0]]

\* GeoTool(client, cache, rate_limiter, ttl_seconds=...) or POITool(...),
\* with a new cache and a new rate limiter, both clocks at 0
ToolInit ==
    /\ NoExecutor
    /\ threads = <<>>
    /\ granted = Zero
    /\ since = Zero
    /\ retry = <<>>
    /\ earlier = <<>>
    /\ \E size \in 1..MaxCacheSize : CacheStart(size)
    /\ \E rate \in ToolRates : \E cap \in ToolCapacities :
          /\ limiter_pc = "ready"
          /\ rate_per_second = rate
          /\ capacity = cap
          /\ tokens = cap
          /\ last_refill = Zero
          /\ limiter_clock = Zero
          /\ limiter_op = [name |-> "new", cost |-> Zero, raised |-> FALSE,
                           allowed |-> FALSE, wait |-> Zero, refused |-> FALSE,
                           tokens_before |-> Zero, last_refill_before |-> Zero]
    /\ \E kind \in ToolKinds : \E ttl_seconds \in ToolTtls :
          tool = [kind |-> kind, ttl_seconds |-> ttl_seconds]
    /\ client_calls = 0
    /\ tool_op = NoToolCall

\* tool.run(query=query): the cache, then the rate limiter, then the client
ToolRun ==
    \E query \in Queries : \E answer \in ClientOutcomes :
       LET cache_key == MakeCacheKey(tool.kind, query)
           cached    == GetResult(items, cache_key, cache_clock)
           looked    == GetItems(items, cache_key, cache_clock)
           refilled  == Refill(limiter_clock)
           got       == CacheCall("get", cache_key, None, 0, cached, items)
       IN
       /\ limiter_pc = "ready"
       /\ IF IsCached(items, cache_key, cache_clock)
          THEN \* return StandardAgentResult.model_validate(cached)
               /\ answer = ClientError
               /\ items' = looked
               /\ cache_op' = got
               /\ tool_op' = ToolCall(query, cache_key, TRUE, FALSE, FALSE, "none",
                                      <<cached>>, client_calls)
               /\ UNCHANGED <<tokens, last_refill, limiter_op, granted, client_calls>>
          ELSE IF ~Allowed(refilled)
          THEN \* allow() returned False; wait_time() refills again; raise
               /\ answer = ClientError
               /\ items' = looked
               /\ cache_op' = got
               /\ tokens' = refilled
               /\ last_refill' = limiter_clock
               /\ limiter_op' =
                     [LimiterCall("wait_time", DefaultCost, FALSE, FALSE,
                                  WaitTime(refilled, DefaultCost), TRUE)
                        EXCEPT !.tokens_before = refilled,
                               !.last_refill_before = limiter_clock]
               /\ tool_op' = ToolCall(query, cache_key, FALSE, TRUE, FALSE, "rate_limit",
                                      <<>>, client_calls)
               /\ UNCHANGED <<granted, client_calls>>
          ELSE \* allow() returned True
               /\ tokens' = RatSub(refilled, DefaultCost)
               /\ last_refill' = limiter_clock
               /\ limiter_op' = LimiterCall("allow", DefaultCost, FALSE, TRUE, Zero, FALSE)
               /\ granted' = RatAdd(granted, DefaultCost)
               /\ IF ~HasSelector(tool.kind, query)
                  THEN \* _build_overpass_query raises
                       /\ answer = ClientError
                       /\ items' = looked
                       /\ cache_op' = got
                       /\ tool_op' = ToolCall(query, cache_key, FALSE, TRUE, TRUE, "query",
                                              <<>>, client_calls)
                       /\ UNCHANGED client_calls
                  ELSE IF answer = ClientError
                  THEN \* the client raises
                       /\ items' = looked
                       /\ cache_op' = got
                       /\ client_calls' = client_calls + 1
                       /\ tool_op' = ToolCall(query, cache_key, FALSE, TRUE, TRUE, "client",
                                              <<>>, client_calls + 1)
                  ELSE LET normalized ==
                              Normalized(tool.kind, query, answer, cache_key)
                       IN
                       /\ items' = SetItems(looked, cache_key, normalized,
                                            tool.ttl_seconds, cache_clock, max_size)
                       /\ cache_op' = CacheCall("set", cache_key, normalized,
                                                tool.ttl_seconds, None, looked)
                       /\ client_calls' = client_calls + 1
                       /\ tool_op' = ToolCall(query, cache_key, FALSE, TRUE, TRUE, "none",
                                              <<normalized>>, client_calls + 1)
       /\ UNCHANGED <<executor, retry, earlier, threads, since, tool, max_size, cache_clock,
                      limiter_pc, rate_per_second, capacity, limiter_clock>>

\* a second passes between two runs; the cache and the rate limiter read
\* the same time, as their default clock time.monotonic does
ToolAdvance ==
    /\ cache_clock < MaxClock
    /\ RatLeq(RatAdd(limiter_clock, <<1, 1>>), <<MaxTime, 1>>)
    /\ cache_clock' = cache_clock + 1
    /\ limiter_clock' = RatAdd(limiter_clock, <<1, 1>>)
    /\ UNCHANGED <<executor, pipeline, callers, max_size, items, cache_op, limiter_pc,
                   rate_per_second, capacity, tokens, last_refill, limiter_op>>

ToolNext ==
    \/ ToolRun
    \/ ToolAdvance

ToolSpec == ToolInit /\ [][ToolNext]_vars

-----------------------------------------------------------------------------
(* The tools *)

\* the entries of the cache the last run found that are live for its key
LiveFound ==
    {i \in 1..Len(tool_op.items_before) :
        /\ tool_op.items_before[i].key = tool_op.cache_key
        /\ tool_op.items_before[i].expires_at > tool_op.cache_at}

\* the tokens of the bucket the last run found, refilled at the time of the run
RefilledFound ==
    LET elapsed == RatMax(Zero, RatSub(tool_op.limiter_at, tool_op.last_refill_before))
        filled == RatAdd(tool_op.tokens_before, RatMul(elapsed, rate_per_second))
    IN IF RatLeq(capacity, filled) THEN capacity ELSE filled

\* C31: GeoTool.run and POITool.run consult the cache before the rate
\* limiter: a run whose cache key has a live entry returns the cached result
\* without calling allow (the tokens and the last refill are untouched) and
\* without calling the client; so when a run that missed and returned a
\* result is followed by a run with the same cache key before the entry
\* expires, the client was called exactly once over the two, and both return
\* the same cache_key and data.
C31_CacheBeforeLimiter ==
    tool_op.name = "run" =>
       /\ LiveFound # {} =>
             /\ tool_op.hit
             /\ tool_op.raised = "none"
             /\ \A i \in LiveFound : tool_op.result = << tool_op.items_before[i].value >>
             /\ ~tool_op.asked
             /\ tokens = tool_op.tokens_before
             /\ last_refill = tool_op.last_refill_before
             /\ client_calls = tool_op.calls_before
       /\ (/\ tool_op.prev.name = "run"
           /\ ~tool_op.prev.hit
           /\ tool_op.prev.raised = "none"
           /\ tool_op.prev.cache_key = tool_op.cache_key
           /\ tool_op.cache_at < tool_op.prev.cache_at + tool.ttl_seconds) =>
             /\ tool_op.prev.client_calls = tool_op.prev.calls_before + 1
             /\ client_calls = tool_op.prev.client_calls
             /\ tool_op.raised = "none"
             /\ tool_op.result[1].cache_key = tool_op.prev.result[1].cache_key
             /\ tool_op.result[1].data = tool_op.prev.result[1].data

\* a run fetched and cached a result, a second passed, and the next run with
\* the same cache key was served from the cache although the bucket was
\* empty at the first run
C31_Witness ==
    /\ tool_op.name = "run"
    /\ tool_op.hit
    /\ tool_op.prev.name = "run"
    /\ ~tool_op.prev.hit
    /\ tool_op.prev.raised = "none"
    /\ tool_op.prev.cache_key = tool_op.cache_key
    /\ client_calls = 1
    /\ tokens = Zero

\* C32: on a cache miss the client is called only after allow() granted a
\* token; when the token is refused the run raises the rate-limit error of
\* the tool, the client is not called and nothing is written to the cache;
\* and when the same call is made again once the clock has advanced by
\* 1/rate, it is not refused (for a bucket of capacity 1 or more, as the
\* tools build it).
C32_ClientAfterToken ==
    tool_op.name = "run" =>
       /\ client_calls > tool_op.calls_before =>
             /\ LiveFound = {}
             /\ tool_op.asked
             /\ tool_op.allowed
             /\ RatLeq(<<1, 1>>, RefilledFound)
             /\ tokens = RatSub(RefilledFound, <<1, 1>>)
       /\ (LiveFound = {} /\ RatLess(RefilledFound, <<1, 1>>)) =>
             /\ tool_op.raised = "rate_limit"
             /\ tool_op.result = <<>>
             /\ client_calls = tool_op.calls_before
             /\ tokens = RefilledFound
             /\ \A i \in 1..Len(items) :
                   \E j \in 1..Len(tool_op.items_before) : items[i] = tool_op.items_before[j]
       /\ (/\ tool_op.prev.name = "run"
           /\ tool_op.prev.raised = "rate_limit"
           /\ tool_op.prev.cache_key = tool_op.cache_key
           /\ RatLeq(<<1, 1>>, capacity)
           /\ RatLeq(RatDiv(<<1, 1>>, rate_per_second),
                     RatSub(tool_op.limiter_at, tool_op.prev.limiter_at))) =>
             /\ tool_op.allowed
             /\ tool_op.raised # "rate_limit"

\* with a bucket of capacity 1 at rate 1/2, a run was refused in a burst,
\* and the same call fetched its result two seconds later
C32_Witness ==
    /\ tool_op.name = "run"
    /\ tool_op.prev.name = "run"
    /\ tool_op.prev.raised = "rate_limit"
    /\ tool_op.prev.cache_key = tool_op.cache_key
    /\ capacity = <<1, 1>>
    /\ rate_per_second = <<1, 2>>
    /\ RatSub(tool_op.limiter_at, tool_op.prev.limiter_at) = <<2, 1>>
    /\ tool_op.raised = "none"
    /\ client_calls > tool_op.calls_before

-----------------------------------------------------------------------------
(* pipeline_runner.py: _invoke_with_transient_retry(func, max_attempts,
   base_delay_seconds, sleep_fn).  Delays are in quarters of a second. *)

MaxTries == 3

\* what func() does: it returns a value, or raises
HTTPError(code) == [type |-> "HTTPError", code |-> code]

URLError == [type |-> "URLError", code |-> 0]

TimeoutError == [type |-> "TimeoutError", code |-> 0]

ValueError == [type |-> "ValueError", code |-> 0]

Returned == [type |-> "return", code |-> 0]

FuncOutcomes ==
    {Returned, HTTPError(404), HTTPError(429), HTTPError(504), URLError, TimeoutError,
     ValueError}

BaseDelays == {1, 2}

\* faulty variant: every HTTPError is taken for transient, as the base class
\* URLError is
IsRetryableAnyHTTPError(exc) ==
    exc.type \in {"HTTPError", "URLError", "TimeoutError"}

\* _is_retryable_transient_error: HTTPError is tested before its base class
IsRetryableTransientError(exc) ==
    IF exc.type = "HTTPError" THEN exc.code \in {429, 500, 502, 503, 504}
    ELSE IF exc.type = "URLError" THEN TRUE
    ELSE exc.type = "TimeoutError"

\* base_delay_seconds * (2 ** (attempt - 1))
Delay(base_delay_seconds, n) == base_delay_seconds * 2^(n - 1)

\* no cache, rate limiter or tool takes part in the runs of the wrapper alone
NoTools ==
    /\ max_size = 0
    /\ items = <<>>
    /\ cache_clock = 0
    /\ cache_op = <<>>
    /\ NoLimiter
    /\ NoCallers
    /\ tool = <<>>
    /\ client_calls = 0
    /\ tool_op = <<>>
    /\ earlier = <<>>

\* the call _invoke_with_transient_retry(func, max_attempts=..., ...) is made
RetryInit ==
    /\ NoExecutor
    /\ NoTools
    /\ \E max_attempts \in -1..MaxTries : \E base_delay_seconds \in BaseDelays :
          retry = [pc |-> "enter", max_attempts |-> max_attempts,
                   base_delay_seconds |-> base_delay_seconds, attempt |-> 0,
                   outcomes |-> <<>>, sleeps |-> <<>>, result |-> <<>>]

\* if max_attempts < 1: raise ValueError; else the loop is entered
RetryEnter ==
    /\ retry # <<>>
    /\ retry.pc = "enter"
    /\ retry' = IF retry.max_attempts < 1
                THEN [retry EXCEPT !.pc = "rejected"]
                ELSE [retry EXCEPT !.pc = "call", !.attempt = 1]
    /\ UNCHANGED <<executor, cache, limiter, callers, tools, earlier>>

\* one pass of the loop: func() is called; its value is returned, or its
\* error is raised again, or sleep_fn is called and the loop goes on
RetryCall ==
    \E raw \in FuncOutcomes :
       /\ retry # <<>>
       /\ retry.pc = "call"
       /\ retry.attempt <= retry.max_attempts
       /\ LET called == [retry EXCEPT !.outcomes = Append(@, raw)] IN
          retry' =
             IF raw = Returned
             THEN [called EXCEPT !.pc = "returned", !.result = <<raw>>]
             ELSE IF ~IsRetryableTransientError(raw)
                       \/ retry.attempt >= retry.max_attempts
             THEN [called EXCEPT !.pc = "raised", !.result = <<raw>>]
             ELSE [called EXCEPT
                      !.sleeps = Append(@, Delay(retry.base_delay_seconds, retry.attempt)),
                      !.attempt = @ + 1]
       /\ UNCHANGED <<executor, cache, limiter, callers, tools, earlier>>

RetryNext ==
    \/ RetryEnter
    \/ RetryCall

RetrySpec == RetryInit /\ [][RetryNext]_vars

\* the errors the claim names as transient
StatedTransient(exc) ==
    \/ exc.type = "HTTPError" /\ exc.code \in {429, 500, 502, 503, 504}
    \/ exc.type = "URLError"
    \/ exc.type = "TimeoutError"

\* C33: func is called at most max_attempts times; every call but the last
\* one made raised a transient error while attempts remained, and
\* sleep_fn(base_delay_seconds * 2^(attempt-1)) was called exactly once
\* after each of them, before the next call; a non-transient error or the
\* error of the last allowed attempt is raised at once with no further call
\* or sleep; the first value returned is returned at once; max_attempts < 1
\* is rejected before any call.
C33_TransientRetry ==
    retry # <<>> =>
       LET n == Len(retry.outcomes) IN
       /\ retry.max_attempts < 1 =>
             (retry.pc \in {"enter", "rejected"} /\ n = 0 /\ retry.sleeps = <<>>)
       /\ retry.max_attempts >= 1 => (n <= retry.max_attempts /\ retry.pc # "rejected")
       /\ \A i \in 1..(n - 1) :
             /\ retry.outcomes[i] # Returned
             /\ StatedTransient(retry.outcomes[i])
             /\ i < retry.max_attempts
       /\ retry.pc = "call" =>
             /\ retry.attempt = n + 1
             /\ retry.sleeps = [i \in 1..n |-> retry.base_delay_seconds * 2^(i - 1)]
       /\ (n > 0 /\ retry.outcomes[n] = Returned) =>
             /\ retry.pc = "returned"
             /\ retry.result = << Returned >>
       /\ (/\ n > 0
           /\ retry.outcomes[n] # Returned
           /\ ~StatedTransient(retry.outcomes[n]) \/ n >= retry.max_attempts) =>
             /\ retry.pc = "raised"
             /\ retry.result = << retry.outcomes[n] >>
       /\ retry.pc \in {"returned", "raised"} =>
             /\ n >= 1
             /\ retry.sleeps = [i \in 1..(n - 1) |-> retry.base_delay_seconds * 2^(i - 1)]

\* with max_attempts = 3, func raised HTTP 504 and a URLError, the wrapper
\* slept the base delay and then twice as long, and the third call raised
\* HTTP 404, which the wrapper raised again
C33_Witness ==
    /\ retry # <<>>
    /\ retry.max_attempts = 3
    /\ retry.pc = "raised"
    /\ retry.outcomes = << HTTPError(504), URLError, HTTPError(404) >>
    /\ retry.sleeps = << retry.base_delay_seconds, 2 * retry.base_delay_seconds >>

-----------------------------------------------------------------------------
(* The executor, continued *)

\* the records of the tasks that failed under a non-critical agent kind
AbsorbedFailures ==
    {i \in 1..Len(records) :
        ~records[i].success /\ records[i].agent \notin critical_agents}

AbsorbedIds == {records[i].task_id : i \in AbsorbedFailures}

\* C34: a task that fails for good under a non-critical agent kind is added
\* to completed and gets no entry in results; a pending task all of whose
\* dependencies have been processed, failed ones included, is ready, it is
\* scheduled in a later pass than the failed dependency, and when execute
\* returns completed it has been processed (its handler invoked, if it has
\* one) after the failure, with no result for the dependency.
C34_FailedDependencyUnblocks ==
    /\ \A i \in AbsorbedFailures :
          /\ records[i].task_id \in completed
          /\ records[i].task_id \notin DOMAIN results
          /\ records[i].task_id \notin SeqToSet(pending)
    /\ pc = "loop" =>
          \A id \in SeqToSet(pending) :
             TaskOf(id).depends_on \subseteq RecordedIds =>
                TaskOf(id).depends_on \subseteq completed
    /\ pc = "run" =>
          \A id \in SeqToSet(Flatten(grouped)) :
             TaskOf(id).depends_on \cap SeqToSet(Flatten(grouped)) = {}
    /\ \A j \in 1..Len(records) :
          \A i \in AbsorbedFailures :
             records[i].task_id \in TaskOf(records[j].task_id).depends_on =>
                /\ i < j
                /\ \A k \in CallsFor(records[j].task_id) :
                      \A l \in CallsFor(records[i].task_id) : l < k
    /\ (pc = "returned" /\ outcome[1].status = "completed") =>
          \A id \in PlanTaskIds :
             TaskOf(id).depends_on \cap AbsorbedIds # {} =>
                /\ id \in RecordedIds
                /\ TaskOf(id).agent \in handlers => CallsFor(id) # {}

\* with geo outside critical_agents, a geo task failed, and the handler of
\* the task that depends on it was invoked in a later pass and succeeded,
\* with no result for the geo task
C34_Witness ==
    /\ pc = "returned"
    /\ outcome[1].status = "completed"
    /\ \E i \in AbsorbedFailures :
          /\ records[i].agent = "geo"
          /\ \E j \in 1..Len(records) :
                /\ records[i].task_id \in TaskOf(records[j].task_id).depends_on
                /\ records[j].success
                /\ CallsFor(records[j].task_id) # {}
                /\ records[j].task_id \in DOMAIN results
                /\ records[i].task_id \notin DOMAIN results

\* whether a sequence lists no element twice
NoRepeat(seq) == \A a, b \in 1..Len(seq) : seq[a] = seq[b] => a = b

\* the task_ids of the successful records, in the order of the records
SuccessOrder(recs) ==
    LET ok == SelectSeq(recs, LAMBDA r : r.success) IN
    [i \in 1..Len(ok) |-> ok[i].task_id]

\* C35: in every outcome each task_id occurs in at most one stage, once, and
\* every task_id in stages is a key of results.  When the status is
\* completed, the stages put end to end list every key of results exactly
\* once, in the order in which the tasks were invoked.  When the status is
\* clarification_needed, the tasks of the interrupted group that succeeded
\* before the critical failure are keys of results and are in no stage, and
\* they are the only such keys.
C35_StagesAndResults ==
    pc = "returned" =>
       LET out == outcome[1]
           flat == Flatten(out.stages)
       IN
       /\ NoRepeat(flat)
       /\ \A s \in 1..Len(out.stages) : out.stages[s] # <<>>
       /\ SeqToSet(flat) \subseteq DOMAIN out.results
       /\ out.status = "completed" =>
             /\ SeqToSet(flat) = DOMAIN out.results
             /\ flat = SuccessOrder(out.records)
             /\ \A a, b \in 1..Len(flat) :
                   a < b => \A k \in CallsFor(flat[a]) :
                               \A l \in CallsFor(flat[b]) : k < l
       /\ out.status = "clarification_needed" =>
             /\ SeqToSet(stage_task_ids) \subseteq DOMAIN out.results
             /\ SeqToSet(stage_task_ids) \cap SeqToSet(flat) = {}
             /\ DOMAIN out.results = SeqToSet(flat) \cup SeqToSet(stage_task_ids)
             /\ flat \o stage_task_ids = SuccessOrder(out.records)

\* execute returned clarification_needed after a task of the same group had
\* succeeded: its result is in results and it is in no stage
C35_Witness ==
    /\ pc = "returned"
    /\ outcome[1].status = "clarification_needed"
    /\ stage_task_ids # <<>>
    /\ SeqToSet(stage_task_ids) \subseteq DOMAIN outcome[1].results
    /\ SeqToSet(stage_task_ids) \cap SeqToSet(Flatten(outcome[1].stages)) = {}

-----------------------------------------------------------------------------
(* execute called a second time, on the same tasks in another order and with
   handlers that answer as they did the first time: the handler's return
   value for a task and attempt number is the one of the first call. *)

Reverse(seq) == [i \in 1..Len(seq) |-> seq[Len(seq) + 1 - i]]

\* seq with the elements at i and i + 1 exchanged
Swap(seq, i) ==
    [k \in 1..Len(seq) |-> IF k = i THEN seq[i + 1] ELSE IF k = i + 1 THEN seq[i] ELSE seq[k]]

\* plan.tasks in other orders (and in the same order)
Reorderings(seq) ==
    {seq, Reverse(seq)} \cup {Swap(seq, i) : i \in 1..(Len(seq) - 1)}

\* the first call of execute: a plan given directly
RepeatInit ==
    /\ \/ \E n \in 1..MaxTasks : \E p \in Plans(n) : \E c \in CriticalChoicesLong :
             Start(p, AgentKinds, c, DefaultMaxRetries)
       \/ \E p \in Plans(1) : \E h \in HandlerChoices : \E c \in CriticalChoices :
          \E r \in (-1)..MaxRetries :
             Start(p, h, c, r)
    /\ NoSharedResource

\* executor.execute(Plan(tasks=reordered)) after the first call has ended
ExecuteAgain ==
    /\ earlier = <<>>
    /\ pc \in {"returned", "raised"}
    /\ \E p \in Reorderings(plan) :
          /\ plan' = p
          /\ pending' = DictKeys(p)
    /\ earlier' = << [plan |-> plan, pc |-> pc, calls |-> calls, records |-> records,
                      stages |-> stages, results |-> results, outcome |-> outcome] >>
    /\ pc' = "loop"
    /\ completed' = {}
    /\ results' = <<>>
    /\ records' = <<>>
    /\ stages' = <<>>
    /\ grouped' = <<>>
    /\ gi' = 0
    /\ ti' = 0
    /\ stage_task_ids' = <<>>
    /\ attempt' = 1
    /\ last_issues' = <<>>
    /\ calls' = <<>>
    /\ outcome' = <<>>
    /\ UNCHANGED <<tripspec, handlers, critical_arg, critical_agents, max_retries,
                   confidence_threshold, cache, limiter, callers, tools, retry>>

\* the handlers depend only on the task and the attempt number: in the
\* second call, the n-th invocation for a task returns what the n-th
\* invocation for that task returned in the first call, if there was one
SameHandlers ==
    (earlier # <<>> /\ calls' # calls) =>
       LET call == calls'[Len(calls')]
           n == Cardinality(CallsFor(call.task_id)) + 1
           first == {i \in 1..Len(earlier[1].calls) :
                        earlier[1].calls[i].task_id = call.task_id}
       IN  \A i \in first :
              Cardinality({j \in first : j <= i}) = n => call.raw = earlier[1].calls[i].raw

RepeatNext ==
    \/ ExecuteAgain
    \/ SchedulePass /\ SameHandlers
    \/ RaiseUnresolved /\ SameHandlers
    \/ ReturnCompleted /\ SameHandlers
    \/ AttemptRetry /\ SameHandlers
    \/ AttemptSuccess /\ SameHandlers
    \/ AttemptFailure /\ SameHandlers
    \/ NoAttempt /\ SameHandlers

RepeatSpec == RepeatInit /\ [][RepeatNext]_vars

IsPrefix(a, b) == Len(a) <= Len(b) /\ a = SubSeq(b, 1, Len(a))

\* C36: execute is deterministic and independent of the order of plan.tasks:
\* when execute is called on the same tasks (unique task_ids) in another
\* order, or in the same order, with handlers whose return value depends
\* only on the task and its attempt number, the handlers are invoked in the
\* same order with the same results, and records, stages, results, the
\* status and the question, or the RuntimeError, are those of the first
\* call.
C36_OrderIndependent ==
    earlier # <<>> =>
       /\ SeqToSet(plan) = SeqToSet(earlier[1].plan)
       /\ IsPrefix(calls, earlier[1].calls)
       /\ IsPrefix(records, earlier[1].records)
       /\ IsPrefix(stages, earlier[1].stages)
       /\ pc \in {"returned", "raised"} =>
             /\ pc = earlier[1].pc
             /\ calls = earlier[1].calls
             /\ records = earlier[1].records
             /\ stages = earlier[1].stages
             /\ results = earlier[1].results
             /\ outcome = earlier[1].outcome

\* two tasks of the same parallel group, neither depending on the other,
\* were given in the opposite order in the second call; both calls invoked
\* the handlers of both and returned completed
C36_Witness ==
    /\ earlier # <<>>
    /\ Len(plan) = 2
    /\ plan = Reverse(earlier[1].plan)
    /\ \A i \in 1..2 : plan[i].depends_on = {} /\ plan[i].parallel_group = GroupTag
    /\ pc = "returned"
    /\ outcome[1].status = "completed"
    /\ Len(calls) >= 2
    /\ Len(stages) = 1

\* C37 as stated: for every task with a registered handler, the attempts
\* field of its record equals the number of times the handler was invoked
\* for that task in this execute call, and 1 <= attempts <= max_retries + 1;
\* a task with no registered handler is recorded with attempts = 1 and no
\* invocation.
C37_AttemptsCountInvocations ==
    \A i \in 1..Len(records) :
       LET invocations == Cardinality(CallsFor(records[i].task_id)) IN
       IF records[i].agent \in handlers
       THEN /\ records[i].attempts = invocations
            /\ 1 <= records[i].attempts
            /\ records[i].attempts <= max_retries + 1
       ELSE /\ records[i].attempts = 1
            /\ invocations = 0

-----------------------------------------------------------------------------
(* The cache and the rate limiter, continued *)

\* C38: a MemoryCache is only constructed with max_size >= 1 (a smaller
\* value raises and builds nothing), and after every set, get, delete and
\* cleanup_expired, in any order and with any clock advances, the cache
\* holds at most max_size entries and no key twice.
C38_SizeInvariant ==
    /\ max_size >= 1
    /\ Len(items) <= max_size
    /\ \A i, j \in 1..Len(items) : items[i].key = items[j].key => i = j
    /\ cache_op.name = "new" =>
          IF cache_op.value <= 0
          THEN cache_op.result = "ValueError" /\ items = cache_op.before
          ELSE cache_op.result = None /\ max_size = cache_op.value /\ items = <<>>

\* a cache of max_size 2 is full after a set that had to evict, at a clock
\* value at which one of the entries it keeps has expired
C38_Witness ==
    /\ max_size = 2
    /\ cache_op.name = "set"
    /\ Len(cache_op.before) = 2
    /\ \A i \in 1..2 : cache_op.before[i].key # cache_op.key
    /\ Len(items) = 2
    /\ \E i \in 1..2 : items[i].expires_at <= cache_clock

\* C39: eviction ignores expiry.  An entry that has expired but has not been
\* purged counts toward max_size: a set of a new key into a cache that holds
\* max_size entries evicts, whatever has expired, and the entry it evicts is
\* the least recently used one, also when that one has not expired and a
\* more recently used one has; every other entry stays.  Below max_size
\* nothing is evicted.
C39_EvictionIgnoresExpiry ==
    (/\ cache_op.name = "set"
     /\ cache_op.ttl > 0
     /\ \A i \in 1..Len(cache_op.before) : cache_op.before[i].key # cache_op.key) =>
        LET found == cache_op.before
            kept == SubSeq(items, 1, Len(items) - 1)
        IN
        /\ items # <<>>
        /\ items[Len(items)].key = cache_op.key
        /\ Len(found) = max_size => kept = Tail(found)
        /\ Len(found) < max_size => kept = found

\* a set into a full cache evicted the least recently used entry, which had
\* not expired, and kept a more recently used entry that had
C39_Witness ==
    /\ cache_op.name = "set"
    /\ cache_op.ttl > 0
    /\ Len(cache_op.before) = 2
    /\ max_size = 2
    /\ cache_op.before[1].expires_at > cache_clock
    /\ cache_op.before[2].expires_at <= cache_clock
    /\ cache_op.before[1].key # cache_op.key
    /\ cache_op.before[2].key # cache_op.key
    /\ items[1] = cache_op.before[2]
    /\ items[2].key = cache_op.key

\* C40: in every state of a RateLimiter 0 <= tokens <= capacity; a refill
\* never decreases the tokens; over any interval [t0, t1] of its clock the
\* costs granted by allow sum to at most capacity + rate * (t1 - t0); and
\* allow(cost) with cost > capacity never returns true.
C40_TokenBucketBounds ==
    limiter_pc = "ready" =>
       /\ RatLeq(Zero, tokens)
       /\ RatLeq(tokens, capacity)
       /\ (limiter_op.name \in {"allow", "wait_time"} /\ ~limiter_op.raised) =>
             /\ RatLeq(limiter_op.tokens_before, StatedRefill)
             /\ tokens = IF limiter_op.allowed
                          THEN RatSub(StatedRefill, limiter_op.cost) ELSE StatedRefill
       /\ RatLeq(since, limiter_clock)
       /\ RatLeq(granted,
                 RatAdd(capacity, RatMul(rate_per_second, RatSub(limiter_clock, since))))
       /\ (limiter_op.name = "allow" /\ RatLess(capacity, limiter_op.cost)) =>
             ~limiter_op.allowed

\* counting from a time after the construction, a bucket of capacity 1 at
\* rate 1 has granted 2 within one second, which is all it can grant
C40_Witness ==
    /\ limiter_pc = "ready"
    /\ capacity = <<1, 1>>
    /\ rate_per_second = <<1, 1>>
    /\ RatLess(Zero, since)
    /\ RatSub(limiter_clock, since) = <<1, 1>>
    /\ granted = <<2, 1>>
    /\ limiter_op.name = "allow"
    /\ limiter_op.allowed

=============================================================================
